---- MODULE Spec2Model ----
(***************************************************************************)
(* A model of AudioMixerBase (media/libaudioprocessing/AudioMixerBase.cpp  *)
(* and include/media/AudioMixerBase.h): the track registry, the control    *)
(* plane (create / destroy / enable / disable / setParameter), the volume  *)
(* ramp variables in their integer (U4.12 / U4.28) and float forms, the    *)
(* hook selection of process__validate and the process hooks.              *)
(*                                                                         *)
(* Numbers.  A C float is modelled by an integer counting units of 2^-29   *)
(* (1.0f is 2^29); every float operation rounds its exact result to the    *)
(* 24-bit significand of binary32 (FRound).  The integer volume fields     *)
(* keep the code's own fixed-point units (U4.12 and U4.28).  Float inputs  *)
(* of setParameter are records [cls, v] so that NaN, the infinities and    *)
(* subnormals can be passed in.                                            *)
(***************************************************************************)
EXTENDS Integers, Sequences, FiniteSets, TLC

VARIABLES
    mTracks,        \* std::map<int, shared_ptr<TrackBase>>: name -> track record
    mHook,          \* the selected process hook (a tuple naming the function)
    mEnabled,       \* std::vector<int>: enabled names, as built by validate
    mGroups,        \* unordered_map<mainBuffer, vector<int>>
    mOutputTemp,    \* unique_ptr<int32_t[]>: TRUE iff allocated
    mResampleTemp,  \* unique_ptr<int32_t[]>: TRUE iff allocated
    fatal,          \* TRUE once a LOG_ALWAYS_FATAL has aborted the process
    created,        \* history: the live names in the order create() was called
    events,         \* history: what the last process() call did, in order
    mState,                     \* Camera3Stream::mState of the camera stream
    mHandoutTotalBufferCount,   \* size_t: buffers handed out and not returned
    mHandoutOutputBufferCount,  \* size_t: those of them handed out as output
    mStatusTracker,             \* wp<StatusTracker>: TRUE while it can be promoted
    marks,          \* history: the calls made on the StatusTracker, in order
    res             \* history: what the last call on the stream returned

\* The mixer and the camera stream are separate objects.
mixerVars == <<mTracks, mHook, mEnabled, mGroups, mOutputTemp, mResampleTemp,
               fatal, created, events>>
streamVars == <<mState, mHandoutTotalBufferCount, mHandoutOutputBufferCount,
                mStatusTracker, marks, res>>

vars == <<mTracks, mHook, mEnabled, mGroups, mOutputTemp, mResampleTemp,
          fatal, created, events,
          mState, mHandoutTotalBufferCount, mHandoutOutputBufferCount,
          mStatusTracker, marks, res>>

----------------------------------------------------------------------------
(* Bounds of the model.                                                    *)

\* Track names are 1..MaxTracks.
MaxTracks == 2

----------------------------------------------------------------------------
(* Program constants.                                                      *)

BLOCKSIZE == 16
MAX_NUM_CHANNELS == 8
MAX_NUM_VOLUMES == 2
UNITY_GAIN_INT == 4096

\* The constructor arguments (initialization constants of the mixer).
mSampleRate == 48000
mFrameCount == 32

NULL == "NULL"

----------------------------------------------------------------------------
(* Float arithmetic: binary32 values as integers in units of 2^-29.        *)

FloatOne == 2^29
UNITY_GAIN_FLOAT == FloatOne

Abs(x) == IF x < 0 THEN -x ELSE x

\* x rounded to the nearest multiple of q, ties to the even multiple.
RoundToMultiple(x, q) ==
    LET a  == Abs(x)
        r  == a % q
        lo == a - r
        up == IF 2 * r > q THEN TRUE
              ELSE IF 2 * r < q THEN FALSE
              ELSE (lo \div q) % 2 = 1
        m  == IF up THEN lo + q ELSE lo
    IN  IF x < 0 THEN -m ELSE m

\* The binary32 value nearest to the exact value x: a number below 2^24
\* units fits the 24-bit significand; a larger one keeps its 24 leading bits.
FRound(x) ==
    IF Abs(x) < 2^24 THEN x
    ELSE LET e == CHOOSE k \in 1..7 : 2^(23 + k) <= Abs(x) /\ Abs(x) \div 2 < 2^(23 + k)
         IN  RoundToMultiple(x, 2^e)

FAdd(a, b) == FRound(a + b)
FSub(a, b) == FRound(a - b)
FMax(a, b) == IF a >= b THEN a ELSE b

\* a / r in float, for the quotients that are whole numbers of units.
FDivExact(a, r) == a % r = 0
FDiv(a, r) == FRound(a \div r)

\* C integer division truncates toward zero.
CDiv(a, b) == IF a >= 0 THEN a \div b ELSE -((-a) \div b)

\* x >> 16 on an int32_t (arithmetic shift).
Shr16(x) == x \div 65536

\* audio_utils: u4_28_from_float(f): 0 for f <= 0, else (uint32_t)(f * 2^28 + 0.5).
u4_28_from_float(f) == IF f <= 0 THEN 0 ELSE (f + 1) \div 2

\* audio_utils: float_from_u4_28(u): u * 2^-28 as a float.
float_from_u4_28(u) == FRound(2 * u)

\* Float values passed to setParameter.
FNum(v) == [cls |-> "num", v |-> v]
FNaN == [cls |-> "nan", v |-> 0]
FPosInf == [cls |-> "inf", v |-> 1]
FNegInf == [cls |-> "inf", v |-> -1]
FSubnormal == [cls |-> "sub", v |-> 1]

\* input == stored, where stored is a finite normal-or-zero float.
FEqStored(input, stored) == input.cls = "num" /\ input.v = stored

\* input < 0
FNegative(input) ==
    \/ input.cls = "num" /\ input.v < 0
    \/ input.cls = "inf" /\ input.v < 0
    \/ input.cls = "sub" /\ input.v < 0

----------------------------------------------------------------------------
(* setVolumeRampVariables (AudioMixerBase.cpp 250-349).                    *)

\* The function without its limits: a variant the properties must tell from
\* lines 261-290.
SanitizeVolume_unlimited(input) ==
    CASE input.cls = "num" -> input.v
      [] input.cls = "inf" -> 2 * input.v * UNITY_GAIN_FLOAT
      [] OTHER -> 0

\* The limits applied to newVolume after the equality test (lines 261-290).
SanitizeVolume(input) ==
    IF FNegative(input) THEN 0
    ELSE CASE input.cls = "sub" -> 0
           [] input.cls = "nan" -> 0
           [] input.cls = "inf" -> UNITY_GAIN_FLOAT
           [] OTHER -> IF input.v > UNITY_GAIN_FLOAT THEN UNITY_GAIN_FLOAT
                       ELSE input.v

\* (int32_t)(newVolume * UNITY_GAIN_INT), limited to UNITY_GAIN_INT (319-321).
IntVolumeOf(newVolume) ==
    IF newVolume >= UNITY_GAIN_FLOAT THEN UNITY_GAIN_INT
    ELSE newVolume \div (FloatOne \div UNITY_GAIN_INT)

\* The six variables the function reads and writes through its pointers.
RampVars(intSet, intPrev, intInc, fSet, fPrev, fInc) ==
    [intSet |-> intSet, intPrev |-> intPrev, intInc |-> intInc,
     fSet |-> fSet, fPrev |-> fPrev, fInc |-> fInc]

\* The float increment of line 298 is a whole number of units.
RampIncExact(input, ramp, s) ==
    ramp # 0 => FDivExact(FSub(SanitizeVolume(input), s.fPrev), ramp)

\* set floating point volume ramp (lines 293-313): [ramp, fInc] afterwards.
FloatRamp(inc, maxv, ramp, s) ==
    IF ramp # 0 /\ inc # 0 /\ FAdd(maxv, inc) # maxv
    THEN [ramp |-> ramp, fInc |-> inc]
    ELSE [ramp |-> 0, fInc |-> s.fInc]

\* The integer ramp without the test of line 331: a variant the properties
\* must tell from lines 323-337.
IntRamp_unchecked(iinc, fr, s) ==
    [ramp |-> fr.ramp, fInc |-> fr.fInc, iInc |-> iinc]

\* set integer volume ramp (lines 323-337): [ramp, fInc, iInc] afterwards.
IntRamp(iinc, fr, s) ==
    IF fr.ramp # 0 /\ iinc # 0
    THEN [ramp |-> fr.ramp, fInc |-> fr.fInc, iInc |-> iinc]
    ELSE [ramp |-> 0, fInc |-> fr.fInc, iInc |-> s.intInc]

\* Lines 339-347: the snap when there is no ramp, and the committed values.
CommitRamp(newVolume, intVolume, r, s) ==
    IF r.ramp = 0
    THEN RampVars(intVolume, intVolume * 65536, 0, newVolume, newVolume, 0)
    ELSE RampVars(intVolume, s.intPrev, r.iInc, newVolume, s.fPrev, r.fInc)

WithIntRamp(newVolume, intVolume, fr, s) ==
    CommitRamp(newVolume, intVolume,
               IntRamp(IF fr.ramp = 0 THEN 0
                       ELSE CDiv(intVolume * 65536 - s.intPrev, fr.ramp), fr, s),
               s)

\* The function after the equality test, on the sanitised newVolume.
SetRamp(newVolume, ramp, s) ==
    WithIntRamp(newVolume, IntVolumeOf(newVolume),
                FloatRamp(IF ramp = 0 THEN 0 ELSE FDiv(FSub(newVolume, s.fPrev), ramp),
                          FMax(newVolume, s.fPrev), ramp, s),
                s)

\* Returns [changed, vars]: the return value and the variables on return.
setVolumeRampVariables(input, ramp, s) ==
    IF FEqStored(input, s.fSet)
    THEN [changed |-> FALSE, vars |-> s]
    ELSE [changed |-> TRUE, vars |-> SetRamp(SanitizeVolume(input), ramp, s)]

----------------------------------------------------------------------------
(* Formats and channel masks.                                              *)

\* audio_format_t values: the five valid PCM formats, a linear PCM format
\* that isValidFormat rejects, and a non-linear format.
ValidFormats == {"PCM_8_BIT", "PCM_16_BIT", "PCM_24_BIT_PACKED", "PCM_32_BIT",
                 "PCM_FLOAT"}

\* isValidFormat() that accepts every format: a variant the properties must
\* tell from isValidFormat().
isValidFormat_any(format) == TRUE

isValidFormat(format) == format \in ValidFormats

\* audio_channel_mask_t: a representation and the number of bits set.
ChannelMask(rep, n) == [rep |-> rep, n |-> n]
AUDIO_CHANNEL_OUT_MONO == ChannelMask("position", 1)
AUDIO_CHANNEL_OUT_STEREO == ChannelMask("position", 2)

audio_channel_count_from_out_mask(mask) ==
    IF mask.rep \in {"position", "index"} THEN mask.n ELSE 0

isValidChannelMask(channelMask) ==
    audio_channel_count_from_out_mask(channelMask) <= MAX_NUM_CHANNELS

isAudioChannelPositionMask(channelMask) == channelMask.rep = "position"

----------------------------------------------------------------------------
(* Tracks.                                                                 *)

Pair(a, b) == [c \in 0..(MAX_NUM_VOLUMES - 1) |-> IF c = 0 THEN a ELSE b]

\* needs: the channel-count bits and the three flags of the bitfield.
Needs(chan, mute, resample, aux) ==
    [chan |-> chan, mute |-> mute, resample |-> resample, aux |-> aux]

\* The resampler AudioResampler::create() returns.
Resampler(format, channels, quality) ==
    [format |-> format, channels |-> channels, quality |-> quality]

exists(name) == name \in DOMAIN mTracks

doesResample(t) == t.mResampler # {}

needsRamp(t) == t.volumeInc[0] # 0 \/ t.volumeInc[1] # 0 \/ t.auxInc # 0

isVolumeMuted(t) == \A c \in 0..(MAX_NUM_VOLUMES - 1) : t.mVolume[c] = 0

useStereoVolume(t) ==
    t.channelMask = AUDIO_CHANNEL_OUT_STEREO
    /\ isAudioChannelPositionMask(t.mMixerChannelMask)

getOutputChannelCount(t) == t.channelCount

\* The track create() builds (lines 98-156).
NewTrack(channelMask, format) ==
    [needs |-> Needs(0, FALSE, FALSE, FALSE),
     volume |-> Pair(0, 0), prevVolume |-> Pair(0, 0), volumeInc |-> Pair(0, 0),
     auxLevel |-> 0, auxInc |-> 0, prevAuxLevel |-> 0,
     mVolume |-> Pair(0, 0), mPrevVolume |-> Pair(0, 0), mVolumeInc |-> Pair(0, 0),
     mAuxLevel |-> 0, mAuxInc |-> 0, mPrevAuxLevel |-> 0,
     channelCount |-> audio_channel_count_from_out_mask(channelMask),
     enabled |-> FALSE,
     channelMask |-> channelMask,
     hook |-> <<NULL>>,
     mResampler |-> {},
     sampleRate |-> mSampleRate,
     mainBuffer |-> NULL, auxBuffer |-> NULL, teeBuffer |-> NULL,
     mMixerFormat |-> "PCM_16_BIT",
     mFormat |-> format,
     mMixerInFormat |-> "PCM_FLOAT",
     mMixerChannelMask |-> AUDIO_CHANNEL_OUT_STEREO,
     mMixerChannelCount |-> audio_channel_count_from_out_mask(AUDIO_CHANNEL_OUT_STEREO),
     mTeeBufferFrameCount |-> 0]

----------------------------------------------------------------------------
(* Control plane.                                                          *)

NoFatal == ""

\* A std::map / std::unordered_map with no entries.
EmptyMap == [k \in {} |-> 0]
Running == fatal = NoFatal

\* invalidate(): mHook = &AudioMixerBase::process__validate.
ptr_process__validate == <<"process__validate">>
ptr_process__nop == <<"process__nop">>
ptr_process__genericNoResampling == <<"process__genericNoResampling">>
ptr_process__genericResampling == <<"process__genericResampling">>

\* LOG_ALWAYS_FATAL: the process aborts; the mixer is gone with it.
Abort(reason) ==
    /\ fatal' = reason
    /\ mTracks' = EmptyMap
    /\ mHook' = ptr_process__nop
    /\ mEnabled' = <<>>
    /\ mGroups' = EmptyMap
    /\ mOutputTemp' = FALSE
    /\ mResampleTemp' = FALSE
    /\ created' = <<>>
    /\ events' = <<>>

\* The registry with one track replaced; hook is the value of mHook on return.
Commit(name, t, hook) ==
    /\ mTracks' = [mTracks EXCEPT ![name] = t]
    /\ mHook' = hook
    /\ events' = <<>>
    /\ UNCHANGED <<mEnabled, mGroups, mOutputTemp, mResampleTemp, fatal, created>>

\* A call that returns without changing the mixer.
NoChange ==
    /\ events' = <<>>
    /\ UNCHANGED <<mTracks, mHook, mEnabled, mGroups, mOutputTemp, mResampleTemp,
                   fatal, created>>

RemoveName(seq, name) == SelectSeq(seq, LAMBDA x : x # name)

\* The status create() returns for a name that does not exist (lines 89-96,
\* 157-160; postCreateTrack of the base class returns OK).
CreateStatus(channelMask, format) ==
    IF ~isValidChannelMask(channelMask) THEN "BAD_VALUE"
    ELSE IF ~isValidFormat(format) THEN "BAD_VALUE"
    ELSE "OK"

\* status_t create(name, channelMask, format, sessionId)
Create(name, channelMask, format) ==
    /\ Running
    /\ IF exists(name) THEN Abort("create: name already exists")
       ELSE IF CreateStatus(channelMask, format) # "OK" THEN NoChange
       ELSE /\ mTracks' = [n \in DOMAIN mTracks \cup {name} |->
                             IF n = name THEN NewTrack(channelMask, format)
                             ELSE mTracks[n]]
            /\ created' = Append(created, name)
            /\ events' = <<>>
            /\ UNCHANGED <<mHook, mEnabled, mGroups, mOutputTemp, mResampleTemp, fatal>>

\* destroy() without its invalidate(): a variant the properties must tell
\* from destroy().
Destroy_keepsHook(name) ==
    /\ Running
    /\ IF ~exists(name) THEN Abort("destroy: invalid name")
       ELSE /\ mTracks' = [n \in DOMAIN mTracks \ {name} |-> mTracks[n]]
            /\ created' = RemoveName(created, name)
            /\ events' = <<>>
            /\ UNCHANGED <<mHook, mEnabled, mGroups, mOutputTemp, mResampleTemp, fatal>>

\* void destroy(name)
Destroy(name) ==
    /\ Running
    /\ IF ~exists(name) THEN Abort("destroy: invalid name")
       ELSE /\ mHook' = IF mTracks[name].enabled THEN ptr_process__validate ELSE mHook
            /\ mTracks' = [n \in DOMAIN mTracks \ {name} |-> mTracks[n]]
            /\ created' = RemoveName(created, name)
            /\ events' = <<>>
            /\ UNCHANGED <<mEnabled, mGroups, mOutputTemp, mResampleTemp, fatal>>

\* enable() that invalidates whether or not the track was disabled: a variant
\* the properties must tell from enable().
Enable_alwaysInvalidates(name) ==
    /\ Running
    /\ IF ~exists(name) THEN Abort("enable: invalid name")
       ELSE Commit(name, [mTracks[name] EXCEPT !.enabled = TRUE], ptr_process__validate)

\* void enable(name)
Enable(name) ==
    /\ Running
    /\ IF ~exists(name) THEN Abort("enable: invalid name")
       ELSE IF ~mTracks[name].enabled
            THEN Commit(name, [mTracks[name] EXCEPT !.enabled = TRUE], ptr_process__validate)
            ELSE NoChange

\* disable() without its invalidate(): a variant the properties must tell
\* from disable().
Disable_keepsHook(name) ==
    /\ Running
    /\ IF ~exists(name) THEN Abort("disable: invalid name")
       ELSE IF mTracks[name].enabled
            THEN Commit(name, [mTracks[name] EXCEPT !.enabled = FALSE], mHook)
            ELSE NoChange

\* void disable(name)
Disable(name) ==
    /\ Running
    /\ IF ~exists(name) THEN Abort("disable: invalid name")
       ELSE IF mTracks[name].enabled
            THEN Commit(name, [mTracks[name] EXCEPT !.enabled = FALSE], ptr_process__validate)
            ELSE NoChange

----------------------------------------------------------------------------
(* Resampler management.                                                   *)

\* Music and video rates get the default resampler quality, others the low one.
isMusicRate(sampleRate) == sampleRate \in {44100, 48000}

\* setResampler() that gives the resampler up when the track returns to the
\* device rate: a variant the properties must tell from setResampler().
setResampler_dropsAtDeviceRate(t, trackSampleRate, devSampleRate) ==
    IF (trackSampleRate # devSampleRate \/ t.mResampler # {})
       /\ t.sampleRate # trackSampleRate
    THEN [changed |-> TRUE,
          t |-> [t EXCEPT
                   !.sampleRate = trackSampleRate,
                   !.mResampler =
                      IF trackSampleRate = devSampleRate THEN {}
                      ELSE {Resampler(t.mMixerInFormat, getOutputChannelCount(t),
                                      IF isMusicRate(trackSampleRate)
                                      THEN "DEFAULT_QUALITY" ELSE "DYN_LOW_QUALITY")}]]
    ELSE [changed |-> FALSE, t |-> t]

\* bool TrackBase::setResampler(trackSampleRate, devSampleRate): [changed, t]
setResampler(t, trackSampleRate, devSampleRate) ==
    IF (trackSampleRate # devSampleRate \/ t.mResampler # {})
       /\ t.sampleRate # trackSampleRate
    THEN [changed |-> TRUE,
          t |-> [t EXCEPT
                   !.sampleRate = trackSampleRate,
                   !.mResampler =
                      IF t.mResampler = {}
                      THEN {Resampler(t.mMixerInFormat, getOutputChannelCount(t),
                                      IF isMusicRate(trackSampleRate)
                                      THEN "DEFAULT_QUALITY" ELSE "DYN_LOW_QUALITY")}
                      ELSE t.mResampler]]
    ELSE [changed |-> FALSE, t |-> t]

\* void TrackBase::recreateResampler(devSampleRate)
recreateResampler(t, devSampleRate) ==
    IF t.mResampler # {}
    THEN setResampler([t EXCEPT !.mResampler = {}, !.sampleRate = devSampleRate],
                      t.sampleRate, devSampleRate).t
    ELSE t

\* bool setChannelMasks(name, trackChannelMask, mixerChannelMask): [changed, t]
setChannelMasks(t, trackChannelMask, mixerChannelMask) ==
    IF trackChannelMask = t.channelMask /\ mixerChannelMask = t.mMixerChannelMask
    THEN [changed |-> FALSE, t |-> t]
    ELSE [changed |-> TRUE,
          t |-> recreateResampler(
                  [t EXCEPT
                     !.channelMask = trackChannelMask,
                     !.channelCount = audio_channel_count_from_out_mask(trackChannelMask),
                     !.mMixerChannelMask = mixerChannelMask,
                     !.mMixerChannelCount =
                         audio_channel_count_from_out_mask(mixerChannelMask)],
                  mSampleRate)]

----------------------------------------------------------------------------
(* setParameter (AudioMixerBase.cpp 351-489).                              *)

VolumeParams == {"VOLUME0", "VOLUME1"}
VolumeIndex(param) == IF param = "VOLUME0" THEN 0 ELSE 1

\* The ramp length a VOLUME / RAMP_VOLUME target passes on.
RampLength(target) == IF target = "RAMP_VOLUME" THEN mFrameCount ELSE 0

ChannelVars(t, c) ==
    RampVars(t.volume[c], t.prevVolume[c], t.volumeInc[c],
             t.mVolume[c], t.mPrevVolume[c], t.mVolumeInc[c])

AuxVars(t) ==
    RampVars(t.auxLevel, t.prevAuxLevel, t.auxInc,
             t.mAuxLevel, t.mPrevAuxLevel, t.mAuxInc)

WithChannelVars(t, c, s) ==
    [t EXCEPT !.volume[c] = s.intSet, !.prevVolume[c] = s.intPrev,
              !.volumeInc[c] = s.intInc, !.mVolume[c] = s.fSet,
              !.mPrevVolume[c] = s.fPrev, !.mVolumeInc[c] = s.fInc]

WithAuxVars(t, s) ==
    [t EXCEPT !.auxLevel = s.intSet, !.prevAuxLevel = s.intPrev,
              !.auxInc = s.intInc, !.mAuxLevel = s.fSet,
              !.mPrevAuxLevel = s.fPrev, !.mAuxInc = s.fInc]

\* The outcome of one setParameter call on track t:
\* [fatal, invalidate, t] (fatal # NoFatal: LOG_ALWAYS_FATAL was hit).
Outcome(invalidate, t) == [fatal |-> NoFatal, invalidate |-> invalidate, t |-> t]
FatalOutcome(reason, t) == [fatal |-> reason, invalidate |-> FALSE, t |-> t]

\* A setter that reports whether it changed something: invalidate() if so.
OutcomeOf(r) == Outcome(r.changed, r.t)

\* The TRACK target with its default case ignoring the call: a variant the
\* properties must tell from lines 423-424.
SetTrackParameter_ignoresUnknown(t, param, value) ==
    CASE param = "CHANNEL_MASK" ->
           OutcomeOf(setChannelMasks(t, value, t.mMixerChannelMask))
      [] param = "MAIN_BUFFER" ->
           Outcome(t.mainBuffer # value, [t EXCEPT !.mainBuffer = value])
      [] OTHER -> Outcome(FALSE, t)

SetTrackParameter(t, param, value) ==
    CASE param = "CHANNEL_MASK" ->
           OutcomeOf(setChannelMasks(t, value, t.mMixerChannelMask))
      [] param = "MAIN_BUFFER" ->
           Outcome(t.mainBuffer # value, [t EXCEPT !.mainBuffer = value])
      [] param = "AUX_BUFFER" ->
           Outcome(t.auxBuffer # value, [t EXCEPT !.auxBuffer = value])
      [] param = "FORMAT" ->
           Outcome(t.mFormat # value, [t EXCEPT !.mFormat = value])
      [] param = "MIXER_FORMAT" ->
           Outcome(FALSE, [t EXCEPT !.mMixerFormat = value])
      [] param = "MIXER_CHANNEL_MASK" ->
           OutcomeOf(setChannelMasks(t, t.channelMask, value))
      [] param = "TEE_BUFFER" ->
           Outcome(t.teeBuffer # value, [t EXCEPT !.teeBuffer = value])
      [] param = "TEE_BUFFER_FRAME_COUNT" ->
           Outcome(t.mTeeBufferFrameCount # value,
                   [t EXCEPT !.mTeeBufferFrameCount = value])
      [] OTHER -> FatalOutcome("setParameter track: bad param", t)

\* REMOVE without the restoring of the sample rate: a variant the properties
\* must tell from lines 441-445.
SetResampleParameter_keepsRate(t, param, value) ==
    CASE param = "SAMPLE_RATE" -> OutcomeOf(setResampler(t, value, mSampleRate))
      [] param = "RESET" -> Outcome(TRUE, t)
      [] param = "REMOVE" -> Outcome(TRUE, [t EXCEPT !.mResampler = {}])
      [] OTHER -> FatalOutcome("setParameter resample: bad param", t)

\* RESET that gives the resampler up as REMOVE does: a variant the properties
\* must tell from lines 438-440.
SetResampleParameter_resetRemoves(t, param, value) ==
    CASE param = "SAMPLE_RATE" -> OutcomeOf(setResampler(t, value, mSampleRate))
      [] param \in {"RESET", "REMOVE"} ->
           Outcome(TRUE, [t EXCEPT !.mResampler = {}, !.sampleRate = mSampleRate])
      [] OTHER -> FatalOutcome("setParameter resample: bad param", t)

SetResampleParameter(t, param, value) ==
    CASE param = "SAMPLE_RATE" -> OutcomeOf(setResampler(t, value, mSampleRate))
      [] param = "RESET" -> Outcome(TRUE, t)
      [] param = "REMOVE" ->
           Outcome(TRUE, [t EXCEPT !.mResampler = {}, !.sampleRate = mSampleRate])
      [] OTHER -> FatalOutcome("setParameter resample: bad param", t)

\* The ramp variables a VOLUME / RAMP_VOLUME parameter names, and the track
\* with them replaced.
ParamVars(t, param) ==
    IF param = "AUXLEVEL" THEN AuxVars(t) ELSE ChannelVars(t, VolumeIndex(param))

WithParamVars(t, param, r) ==
    Outcome(r.changed,
            IF param = "AUXLEVEL" THEN WithAuxVars(t, r.vars)
            ELSE WithChannelVars(t, VolumeIndex(param), r.vars))

SetVolumeParameter(t, target, param, value) ==
    IF param = "AUXLEVEL" \/ param \in VolumeParams
    THEN WithParamVars(t, param,
            setVolumeRampVariables(value, RampLength(target), ParamVars(t, param)))
    ELSE FatalOutcome("setParameter volume: bad param", t)

SetParameterOutcome(t, target, param, value) ==
    CASE target = "TRACK" -> SetTrackParameter(t, param, value)
      [] target = "RESAMPLE" -> SetResampleParameter(t, param, value)
      [] target \in {"RAMP_VOLUME", "VOLUME"} -> SetVolumeParameter(t, target, param, value)
      [] OTHER -> FatalOutcome("setParameter: bad target", t)

CommitOutcome(name, r) ==
    IF r.fatal # NoFatal THEN Abort(r.fatal)
    ELSE Commit(name, r.t, IF r.invalidate THEN ptr_process__validate ELSE mHook)

\* void setParameter(name, target, param, value)
SetParameter(name, target, param, value) ==
    /\ Running
    /\ IF ~exists(name) THEN Abort("setParameter: invalid name")
       ELSE CommitOutcome(name, SetParameterOutcome(mTracks[name], target, param, value))

----------------------------------------------------------------------------
(* Volume ramps while mixing.                                              *)

Channels == 0..(MAX_NUM_VOLUMES - 1)

\* vol += volinc, once per output frame, in float.
RECURSIVE FAdvance(_, _, _)
FAdvance(prev, inc, frames) ==
    IF frames = 0 \/ inc = 0 THEN prev
    ELSE LET next == FAdd(prev, inc)
         IN  IF next = prev THEN prev          \* the sum no longer moves
             ELSE FAdvance(next, inc, frames - 1)

\* The same in U4.28 integers.
IAdvance(prev, inc, frames) == prev + inc * frames

\* volumeRampMulti: the inner loop applies vol[c] to frame i and then advances
\* vol[c] by volinc[c]; the aux level advances the same way when there is an
\* aux buffer.
volumeRampMulti(t, frames, aux, useFloat) ==
    IF useFloat
    THEN [t EXCEPT
            !.mPrevVolume = [c \in Channels |->
                               FAdvance(t.mPrevVolume[c], t.mVolumeInc[c], frames)],
            !.mPrevAuxLevel = IF aux THEN FAdvance(t.mPrevAuxLevel, t.mAuxInc, frames)
                              ELSE t.mPrevAuxLevel]
    ELSE [t EXCEPT
            !.prevVolume = [c \in Channels |->
                              IAdvance(t.prevVolume[c], t.volumeInc[c], frames)],
            !.prevAuxLevel = IF aux THEN IAdvance(t.prevAuxLevel, t.auxInc, frames)
                             ELSE t.prevAuxLevel]

\* The float mode without the assignment of line 552: a variant the
\* properties must tell from lines 543-554.
AdjustChannelFloat_unsynced(t, c) ==
    IF \/ t.mVolumeInc[c] > 0 /\ FAdd(t.mPrevVolume[c], t.mVolumeInc[c]) >= t.mVolume[c]
       \/ t.mVolumeInc[c] < 0 /\ FAdd(t.mPrevVolume[c], t.mVolumeInc[c]) <= t.mVolume[c]
    THEN [t EXCEPT !.volumeInc[c] = 0,
                   !.prevVolume[c] = t.volume[c] * 65536,
                   !.mVolumeInc[c] = 0,
                   !.mPrevVolume[c] = t.mVolume[c]]
    ELSE t

\* adjustVolumeRamp, one channel, float mode (lines 543-554).
AdjustChannelFloat(t, c) ==
    IF \/ t.mVolumeInc[c] > 0 /\ FAdd(t.mPrevVolume[c], t.mVolumeInc[c]) >= t.mVolume[c]
       \/ t.mVolumeInc[c] < 0 /\ FAdd(t.mPrevVolume[c], t.mVolumeInc[c]) <= t.mVolume[c]
    THEN [t EXCEPT !.volumeInc[c] = 0,
                   !.prevVolume[c] = t.volume[c] * 65536,
                   !.mVolumeInc[c] = 0,
                   !.mPrevVolume[c] = t.mVolume[c]]
    ELSE [t EXCEPT !.prevVolume[c] = u4_28_from_float(t.mPrevVolume[c])]

\* adjustVolumeRamp, one channel, integer mode (lines 556-567).
AdjustChannelInt(t, c) ==
    IF \/ t.volumeInc[c] > 0 /\ Shr16(t.prevVolume[c] + t.volumeInc[c]) >= t.volume[c]
       \/ t.volumeInc[c] < 0 /\ Shr16(t.prevVolume[c] + t.volumeInc[c]) <= t.volume[c]
    THEN [t EXCEPT !.volumeInc[c] = 0,
                   !.prevVolume[c] = t.volume[c] * 65536,
                   !.mVolumeInc[c] = 0,
                   !.mPrevVolume[c] = t.mVolume[c]]
    ELSE [t EXCEPT !.mPrevVolume[c] = float_from_u4_28(t.prevVolume[c])]

\* The aux part of adjustVolumeRamp (lines 570-589, FLOAT_AUX defined).
AdjustAux(t, useFloat) ==
    LET done == IF useFloat
                THEN \/ t.mAuxInc > 0 /\ FAdd(t.mPrevAuxLevel, t.mAuxInc) >= t.mAuxLevel
                     \/ t.mAuxInc < 0 /\ FAdd(t.mPrevAuxLevel, t.mAuxInc) <= t.mAuxLevel
                ELSE \/ t.auxInc > 0 /\ Shr16(t.prevAuxLevel + t.auxInc) >= t.auxLevel
                     \/ t.auxInc < 0 /\ Shr16(t.prevAuxLevel + t.auxInc) <= t.auxLevel
    IN  IF done
        THEN [t EXCEPT !.auxInc = 0, !.prevAuxLevel = t.auxLevel * 65536,
                       !.mAuxInc = 0, !.mPrevAuxLevel = t.mAuxLevel]
        ELSE t

AdjustChannel(t, c, useFloat) ==
    IF useFloat THEN AdjustChannelFloat(t, c) ELSE AdjustChannelInt(t, c)

\* void TrackBase::adjustVolumeRamp(bool aux, bool useFloat)
adjustVolumeRamp(t, aux, useFloat) ==
    IF aux
    THEN AdjustAux(AdjustChannel(AdjustChannel(t, 0, useFloat), 1, useFloat), useFloat)
    ELSE AdjustChannel(AdjustChannel(t, 0, useFloat), 1, useFloat)

\* if (ADJUSTVOL) adjustVolumeRamp(aux != NULL, USEFLOATVOL)
AfterRamp(t, aux, useFloatVol, adjustVol) ==
    IF adjustVol THEN adjustVolumeRamp(t, aux, useFloatVol) ELSE t

\* void TrackBase::volumeMix<MIXTYPE, USEFLOATVOL, ADJUSTVOL>(out, outFrames, in, aux, ramp)
volumeMix(t, outFrames, aux, ramp, useFloatVol, adjustVol) ==
    IF ramp
    THEN AfterRamp(volumeRampMulti(t, outFrames, aux, useFloatVol),
                   aux, useFloatVol, adjustVol)
    ELSE t

----------------------------------------------------------------------------
(* Hook tables.                                                            *)

ptr_track__nop == <<"track__nop">>

\* [fatal, hook]: the hook returned, or the LOG_ALWAYS_FATAL that was hit.
HookResult(hook) == [fatal |-> NoFatal, hook |-> hook]
HookFatal(reason) == [fatal |-> reason, hook |-> <<NULL>>]

\* The template instance <MIXTYPE, TO, TI, TYPE_AUX> of a track hook.
TrackHookFor(fn, mixtype, mixerInFormat) ==
    CASE mixerInFormat = "PCM_FLOAT" -> HookResult(<<fn, mixtype, "float", "float">>)
      [] mixerInFormat = "PCM_16_BIT" -> HookResult(<<fn, mixtype, "int32_t", "int16_t">>)
      [] OTHER -> HookFatal("getTrackHook: bad mixerInFormat")

\* hook_t TrackBase::getTrackHook(trackType, channelCount, mixerInFormat, mixerOutFormat)
\* with kUseNewMixer == true.
getTrackHook(trackType, channelCount, mixerInFormat, mixerOutFormat) ==
    IF channelCount > MAX_NUM_CHANNELS THEN HookFatal("getTrackHook: channelCount")
    ELSE CASE trackType = "TRACKTYPE_NOP" -> HookResult(ptr_track__nop)
           [] trackType = "TRACKTYPE_RESAMPLE" ->
                TrackHookFor("track__Resample", "MIXTYPE_MULTI", mixerInFormat)
           [] trackType = "TRACKTYPE_RESAMPLESTEREO" ->
                TrackHookFor("track__Resample", "MIXTYPE_MULTI_STEREOVOL", mixerInFormat)
           [] trackType = "TRACKTYPE_RESAMPLEMONO" ->
                TrackHookFor("track__Resample", "MIXTYPE_STEREOEXPAND", mixerInFormat)
           [] trackType = "TRACKTYPE_NORESAMPLEMONO" ->
                TrackHookFor("track__NoResample", "MIXTYPE_MONOEXPAND", mixerInFormat)
           [] trackType = "TRACKTYPE_NORESAMPLE" ->
                TrackHookFor("track__NoResample", "MIXTYPE_MULTI", mixerInFormat)
           [] trackType = "TRACKTYPE_NORESAMPLESTEREO" ->
                TrackHookFor("track__NoResample", "MIXTYPE_MULTI_STEREOVOL", mixerInFormat)
           [] OTHER -> HookFatal("getTrackHook: bad trackType")

\* process_hook_t getProcessHook(processType, channelCount, mixerInFormat,
\*                               mixerOutFormat, stereoVolume), kUseNewMixer == true.
getProcessHook(processType, channelCount, mixerInFormat, mixerOutFormat, stereoVolume) ==
    IF processType # "PROCESSTYPE_NORESAMPLEONETRACK"
    THEN HookFatal("getProcessHook: bad processType")
    ELSE IF channelCount > MAX_NUM_CHANNELS
    THEN HookFatal("getProcessHook: channelCount")
    ELSE LET mixtype == IF stereoVolume THEN "MIXTYPE_MULTI_SAVEONLY_STEREOVOL"
                        ELSE "MIXTYPE_MULTI_SAVEONLY"
             ti == CASE mixerInFormat = "PCM_FLOAT" -> "float"
                     [] mixerInFormat = "PCM_16_BIT" -> "int16_t"
                     [] OTHER -> NULL
             to == CASE mixerOutFormat = "PCM_FLOAT" -> "float"
                     [] mixerOutFormat = "PCM_16_BIT" -> "int16_t"
                     [] OTHER -> NULL
         IN  IF ti = NULL THEN HookFatal("getProcessHook: bad mixerInFormat")
             ELSE IF to = NULL THEN HookFatal("getProcessHook: bad mixerOutFormat")
             ELSE HookResult(<<"process__noResampleOneTrack", mixtype, to, ti>>)

\* std::is_same_v<TI, float> of a template instance.
UsesFloatVolume(hook) == hook[4] = "float"

----------------------------------------------------------------------------
(* The state a process() call works on, and the buffer providers.          *)

\* m: the mixer during one process() call.  prov[name] is what the track's
\* provider will answer to its next getNextBuffer calls: 0 is a null buffer,
\* k > 0 a buffer of at most k frames; once the plan is used up every
\* request is filled completely.  order is the iteration order of mGroups.
\* io[name] holds t->frameCount, t->buffer.frameCount and whether t->mIn is
\* non-null.
Mixer(tracks, hook, enabled, groups, outputTemp, resampleTemp, prov, order) ==
    [tracks |-> tracks, hook |-> hook, enabled |-> enabled, groups |-> groups,
     outputTemp |-> outputTemp, resampleTemp |-> resampleTemp,
     prov |-> prov, order |-> order, events |-> <<>>, fatal |-> NoFatal,
     all16 |-> TRUE,
     io |-> [n \in DOMAIN tracks |-> [frameCount |-> 0, bufFrames |-> 0, mIn |-> FALSE]]]

Event(kind, name, buf, frames, hook) ==
    [ev |-> kind, name |-> name, buf |-> buf, frames |-> frames, hook |-> hook]

Log(m, e) == [m EXCEPT !.events = Append(@, e)]

Crash(m, reason) == IF m.fatal = NoFatal THEN [m EXCEPT !.fatal = reason] ELSE m

\* A store through the pointer buf (memset, convertMixerFormat, volumeMix out).
Write(m, e) == IF e.buf = NULL THEN Crash(m, "write through null pointer") ELSE Log(m, e)

Min(a, b) == IF a <= b THEN a ELSE b

\* The frames the provider of track name returns for a request (0: raw == NULL).
ReplyFrames(m, name, requested) ==
    LET plan == m.prov[name]
    IN  IF plan = <<>> THEN requested
        ELSE Min(Head(plan), requested)

\* bufferProvider->getNextBuffer(&t->buffer)
getNextBuffer(m, name, requested) ==
    LET plan == m.prov[name]
    IN  Log([m EXCEPT !.prov[name] = IF plan = <<>> THEN plan ELSE Tail(plan)],
            Event("getNextBuffer", name, NULL, ReplyFrames(m, name, requested), <<requested>>))

\* bufferProvider->releaseBuffer(&t->buffer); frames is buffer.frameCount and
\* 0 stands for a buffer whose raw pointer is NULL.
releaseBuffer(m, name, frames) ==
    Log(m, Event("releaseBuffer", name, NULL, frames, <<>>))

----------------------------------------------------------------------------
(* Track hooks.  Every step of a process() call maps the mixer m to the    *)
(* mixer after the step, and is the identity once the call has crashed.     *)

Ok(m) == m.fatal = NoFatal

WithTrack(m, name, t) == [m EXCEPT !.tracks[name] = t]

\* volumeMix on track name, as its hook calls it (ADJUSTVOL == true).
HookMix(m, name, t, frames, aux) ==
    WithTrack(m, name,
              volumeMix(t, frames, aux, needsRamp(t), UsesFloatVolume(t.hook), TRUE))

\* Whether track__Resample takes its first branch (line 1511).
ResampleToTemp(t, aux) ==
    t.hook[2] \in {"MIXTYPE_MONOEXPAND", "MIXTYPE_STEREOEXPAND"} \/ needsRamp(t) \/ aux

\* What stops the hook of track t: nothing (NoFatal), or a null pointer.
HookCrash(m, t, aux, outOk) ==
    CASE t.hook[1] = "track__nop" -> NoFatal
      [] t.hook[1] = "track__NoResample" -> NoFatal
      [] t.hook[1] = "track__Resample" ->
           IF t.mResampler = {} THEN "track__Resample: null mResampler"
           ELSE IF ResampleToTemp(t, aux) /\ ~m.resampleTemp
           THEN "track__Resample: null temp"
           ELSE IF ~ResampleToTemp(t, aux) /\ ~outOk THEN "track__Resample: null out"
           ELSE NoFatal
      [] OTHER -> "null track hook"

\* Whether the hook of track t runs volumeMix.
HookMixes(t, aux) ==
    \/ t.hook[1] = "track__NoResample"
    \/ t.hook[1] = "track__Resample" /\ ResampleToTemp(t, aux)

HookRun(m, name, t, frames, aux, reason) ==
    IF reason # NoFatal THEN Crash(m, reason)
    ELSE IF HookMixes(t, aux) THEN HookMix(m, name, t, frames, aux)
    ELSE m

\* (t.get()->*t->hook)(out, frames, temp, aux): out is non-null iff outOk,
\* temp is mResampleTemp.get(), aux is non-null iff aux.
InvokeHook(m, name, frames, aux, outOk) ==
    IF ~Ok(m) THEN m
    ELSE HookRun(Log(m, Event("hook", name,
                              IF aux THEN m.tracks[name].auxBuffer ELSE NULL,
                              frames, m.tracks[name].hook)),
                 name, m.tracks[name], frames, aux,
                 HookCrash(m, m.tracks[name], aux, outOk))

\* convertMixerFormat(out, mixerOutFormat, in, mixerInFormat, sampleCount)
convertMixerFormat(m, name, buf, frames) ==
    IF ~Ok(m) THEN m
    ELSE IF m.tracks[name].mMixerInFormat \notin {"PCM_FLOAT", "PCM_16_BIT"}
    THEN Crash(m, "convertMixerFormat: bad mixerInFormat")
    ELSE IF m.tracks[name].mMixerFormat \notin {"PCM_FLOAT", "PCM_16_BIT"}
    THEN Crash(m, "convertMixerFormat: bad mixerOutFormat")
    ELSE Write(m, Event("convertMixerFormat", name, buf, frames,
                        <<m.tracks[name].mMixerFormat>>))

\* mTracks[name] of a name the map does not hold yields a null pointer.
Missing(m, name) == name \notin DOMAIN m.tracks

\* The keys of mGroups in the order the unordered_map iterates them.
GroupOrder(m) == SelectSeq(m.order, LAMBDA b : b \in DOMAIN m.groups)

\* t->buffer.frameCount = requested; getNextBuffer(&t->buffer); t->mIn = raw.
\* t->frameCount takes the frames when assign is "always", or "nonnull" and
\* the buffer is not null.
GotBuffer(m, name, got, assign) ==
    [m EXCEPT !.io[name] =
        [frameCount |-> IF assign = "always" \/ (assign = "nonnull" /\ got > 0)
                        THEN got ELSE @.frameCount,
         bufFrames  |-> got,
         mIn        |-> got > 0]]

Acquire(m, name, requested, assign) ==
    IF ~Ok(m) THEN m
    ELSE GotBuffer(getNextBuffer(m, name, requested), name,
                   ReplyFrames(m, name, requested), assign)

\* releaseBuffer(&t->buffer) of the buffer the track holds.
Release(m, name) ==
    IF ~Ok(m) THEN m ELSE releaseBuffer(m, name, m.io[name].bufFrames)

----------------------------------------------------------------------------
(* process__nop (lines 1066-1092).                                         *)

RECURSIVE NopConsume(_, _, _)
\* The consuming loop without the break at line 1087: a variant the
\* properties must tell from the loop that stops at a null buffer.
NopConsumed_retriesAfterNull(m, name, outFrames) ==
    IF ~m.io[name].mIn THEN NopConsume(m, name, outFrames \div 2)
    ELSE NopConsume(Release(m, name), name, outFrames - m.io[name].bufFrames)

NopConsumed(m, name, outFrames) ==
    IF ~m.io[name].mIn THEN m
    ELSE NopConsume(Release(m, name), name, outFrames - m.io[name].bufFrames)

NopConsume(m, name, outFrames) ==
    IF outFrames = 0 \/ ~Ok(m) THEN m
    ELSE NopConsumed(Acquire(m, name, outFrames, "never"), name, outFrames)

RECURSIVE NopGroup(_, _, _)
NopGroup(m, group, i) ==
    IF i > Len(group) \/ ~Ok(m) THEN m
    ELSE IF Missing(m, group[i]) THEN Crash(m, "process__nop: null track")
    ELSE NopGroup(NopConsume(m, group[i], mFrameCount), group, i + 1)

\* process__nop without the memset of the main buffer: a variant the
\* properties must tell from lines 1075-1077.
NopClear_skipped(m, name) ==
    IF Missing(m, name) THEN Crash(m, "process__nop: null track") ELSE m

\* memset(t->mainBuffer, 0, ...) of the group's first track
NopClear(m, name) ==
    IF Missing(m, name) THEN Crash(m, "process__nop: null track")
    ELSE Write(m, Event("memset", name, m.tracks[name].mainBuffer, mFrameCount, <<>>))

RECURSIVE NopGroups(_, _, _)
NopGroups(m, keys, k) ==
    IF k > Len(keys) \/ ~Ok(m) THEN m
    ELSE NopGroups(NopGroup(NopClear(m, m.groups[keys[k]][1]), m.groups[keys[k]], 1),
                   keys, k + 1)

process__nop(m) == NopGroups(m, GroupOrder(m), 1)

----------------------------------------------------------------------------
(* process__genericNoResampling (lines 1095-1172).                         *)

\* acquire buffer (lines 1106-1112)
RECURSIVE AcquireAll(_, _, _)
AcquireAll(m, group, i) ==
    IF i > Len(group) \/ ~Ok(m) THEN m
    ELSE IF Missing(m, group[i]) THEN Crash(m, "process__genericNoResampling: null track")
    ELSE AcquireAll(Acquire(m, group[i], mFrameCount, "always"), group, i + 1)

\* t->frameCount -= inFrames after the hook (line 1136)
Consumed(m, name, inFrames) ==
    IF ~Ok(m) THEN m ELSE [m EXCEPT !.io[name].frameCount = @ - inFrames]

\* if (inFrames > 0) { hook; ... } (lines 1132-1141)
MixSome(m, name, inFrames, aux) ==
    IF inFrames > 0
    THEN Consumed(InvokeHook(m, name, inFrames, aux, TRUE), name, inFrames)
    ELSE m

\* for (int outFrames = frameCount; outFrames > 0; ) { ... } of one track
RECURSIVE MixBlock(_, _, _, _, _, _)

\* if (t->frameCount == 0 && outFrames) { release; get; ... } (lines 1142-1152)
MixMore(m, name, numFrames, frameCount, outFrames, aux) ==
    IF ~Ok(m) THEN m
    ELSE IF m.io[name].frameCount = 0 /\ outFrames # 0
    THEN MixBlock(Acquire(Release(m, name), name,
                          (mFrameCount - numFrames) - (frameCount - outFrames),
                          "nonnull"),
                  name, numFrames, frameCount, outFrames, aux)
    ELSE MixBlock(m, name, numFrames, frameCount, outFrames, aux)

\* The loop without the test of t->mIn (lines 1128-1130): a variant the
\* properties must tell from the loop of lines 1125-1153.
MixBlock_ignoresNull(m, name, numFrames, frameCount, outFrames, aux) ==
    IF outFrames <= 0 \/ ~Ok(m) THEN m
    ELSE MixMore(MixSome(m, name, Min(m.io[name].frameCount, outFrames), aux),
                 name, numFrames, frameCount,
                 outFrames - Min(m.io[name].frameCount, outFrames), aux)

MixBlock(m, name, numFrames, frameCount, outFrames, aux) ==
    IF outFrames <= 0 \/ ~Ok(m) THEN m
    ELSE IF ~m.io[name].mIn THEN m
    ELSE MixMore(MixSome(m, name, Min(m.io[name].frameCount, outFrames), aux),
                 name, numFrames, frameCount,
                 outFrames - Min(m.io[name].frameCount, outFrames), aux)

\* The loop over the tracks of a group with the accumulator cleared before
\* each track: a variant the properties must tell from lines 1118-1154.
RECURSIVE MixBlockAll_clearsPerTrack(_, _, _, _, _)
MixBlockAll_clearsPerTrack(m, group, i, numFrames, frameCount) ==
    IF i > Len(group) \/ ~Ok(m) THEN m
    ELSE MixBlockAll_clearsPerTrack(
           MixBlock(Log(m, Event("clear", group[i], m.tracks[group[i]].mainBuffer,
                                 frameCount, <<>>)),
                    group[i], numFrames, frameCount, frameCount,
                    m.tracks[group[i]].needs.aux),
           group, i + 1, numFrames, frameCount)

RECURSIVE MixBlockAll(_, _, _, _, _)
MixBlockAll(m, group, i, numFrames, frameCount) ==
    IF i > Len(group) \/ ~Ok(m) THEN m
    ELSE MixBlockAll(MixBlock(m, group[i], numFrames, frameCount, frameCount,
                              m.tracks[group[i]].needs.aux),
                     group, i + 1, numFrames, frameCount)

\* memset(outTemp, 0, sizeof(outTemp))
ClearTemp(m, name, key, frameCount) ==
    IF ~Ok(m) THEN m ELSE Log(m, Event("clear", name, key, frameCount, <<>>))

\* do { ... } while (numFrames < mFrameCount), from the block at numFrames on
RECURSIVE Blocks(_, _, _, _)
Blocks(m, key, group, numFrames) ==
    IF numFrames >= mFrameCount \/ ~Ok(m) THEN m
    ELSE Blocks(
           convertMixerFormat(
              MixBlockAll(ClearTemp(m, group[1], key, Min(BLOCKSIZE, mFrameCount - numFrames)),
                          group, 1, numFrames, Min(BLOCKSIZE, mFrameCount - numFrames)),
              group[1], key, Min(BLOCKSIZE, mFrameCount - numFrames)),
           key, group, numFrames + Min(BLOCKSIZE, mFrameCount - numFrames))

\* release each track's buffer (lines 1167-1170)
RECURSIVE ReleaseAll(_, _, _)
ReleaseAll(m, group, i) ==
    IF i > Len(group) \/ ~Ok(m) THEN m
    ELSE ReleaseAll(Release(m, group[i]), group, i + 1)

RECURSIVE NoResamplingGroups(_, _, _)
NoResamplingGroups(m, keys, k) ==
    IF k > Len(keys) \/ ~Ok(m) THEN m
    ELSE NoResamplingGroups(
           ReleaseAll(Blocks(AcquireAll(m, m.groups[keys[k]], 1),
                             keys[k], m.groups[keys[k]], 0),
                      m.groups[keys[k]], 1),
           keys, k + 1)

process__genericNoResampling(m) == NoResamplingGroups(m, GroupOrder(m), 1)

----------------------------------------------------------------------------
(* process__genericResampling (lines 1175-1224).                           *)

\* while (outFrames < numFrames) { get; break on null; hook; release }
RECURSIVE PullAndMix(_, _, _, _)

Pulled(m, name, outFrames, aux) ==
    IF ~Ok(m) \/ ~m.io[name].mIn THEN m
    ELSE PullAndMix(Release(InvokeHook(m, name, m.io[name].bufFrames, aux, m.outputTemp),
                            name),
                    name, outFrames + m.io[name].bufFrames, aux)

PullAndMix(m, name, outFrames, aux) ==
    IF outFrames >= mFrameCount \/ ~Ok(m) THEN m
    ELSE Pulled(Acquire(m, name, mFrameCount - outFrames, "never"), name, outFrames, aux)

ResampleTrack(m, name, t) ==
    IF t.needs.resample
    THEN InvokeHook(m, name, mFrameCount, t.needs.aux, m.outputTemp)
    ELSE PullAndMix(m, name, 0, t.needs.aux)

RECURSIVE ResampleGroup(_, _, _)
ResampleGroup(m, group, i) ==
    IF i > Len(group) \/ ~Ok(m) THEN m
    ELSE IF Missing(m, group[i]) THEN Crash(m, "process__genericResampling: null track")
    ELSE ResampleGroup(ResampleTrack(m, group[i], m.tracks[group[i]]), group, i + 1)

\* clear temp buffer (line 1186): outTemp is mOutputTemp.get()
ClearOutputTemp(m, name, key) ==
    IF Missing(m, name) THEN Crash(m, "process__genericResampling: null track")
    ELSE IF ~m.outputTemp THEN Crash(m, "process__genericResampling: null outTemp")
    ELSE Log(m, Event("clear", name, key, mFrameCount, <<>>))

\* convertMixerFormat(t1->mainBuffer, ...) (line 1221)
ConvertToMain(m, name) ==
    IF ~Ok(m) THEN m
    ELSE convertMixerFormat(m, name, m.tracks[name].mainBuffer, mFrameCount)

RECURSIVE ResamplingGroups(_, _, _)
ResamplingGroups(m, keys, k) ==
    IF k > Len(keys) \/ ~Ok(m) THEN m
    ELSE ResamplingGroups(
           ConvertToMain(
              ResampleGroup(ClearOutputTemp(m, m.groups[keys[k]][1], keys[k]),
                            m.groups[keys[k]], 1),
              m.groups[keys[k]][1]),
           keys, k + 1)

process__genericResampling(m) == ResamplingGroups(m, GroupOrder(m), 1)

----------------------------------------------------------------------------
(* process__noResampleOneTrack (lines 1449-1495).                          *)

\* volumeMix<MIXTYPE, USEFLOATVOL, false>(out, outFrames, in, aux, ramp)
OneTrackMix(m, name, aux, ramp, useFloat) ==
    IF ~Ok(m) THEN m
    ELSE WithTrack(m, name,
                   volumeMix(m.tracks[name], m.io[name].bufFrames, aux, ramp,
                             useFloat, FALSE))

RECURSIVE OneTrackLoop(_, _, _, _, _, _)

\* The body of the loop after getNextBuffer (lines 1466-1490).
OneTrackGot(m, name, numFrames, aux, ramp, useFloat) ==
    IF ~m.io[name].mIn
    THEN Write(m, Event("memset", name, m.tracks[name].mainBuffer, numFrames, <<>>))
    ELSE OneTrackLoop(
           Release(OneTrackMix(Write(m, Event("volumeMix", name, m.tracks[name].mainBuffer,
                                              m.io[name].bufFrames, m.hook)),
                               name, aux, ramp, useFloat),
                   name),
           name, numFrames - m.io[name].bufFrames, aux, ramp, useFloat)

OneTrackLoop(m, name, numFrames, aux, ramp, useFloat) ==
    IF ~Ok(m) THEN m
    ELSE IF numFrames = 0
    THEN IF ramp
         THEN WithTrack(m, name, adjustVolumeRamp(m.tracks[name], aux, useFloat))
         ELSE m
    ELSE OneTrackGot(Acquire(m, name, numFrames, "never"), name, numFrames,
                     aux, ramp, useFloat)

process__noResampleOneTrack(m) ==
    IF Len(m.enabled) # 1 THEN Crash(m, "process__noResampleOneTrack: != 1 tracks enabled")
    ELSE IF Missing(m, m.enabled[1])
    THEN Crash(m, "process__noResampleOneTrack: null track")
    ELSE OneTrackLoop(m, m.enabled[1], mFrameCount,
                      m.tracks[m.enabled[1]].auxBuffer # NULL,
                      needsRamp(m.tracks[m.enabled[1]]), UsesFloatVolume(m.hook))

----------------------------------------------------------------------------
(* process__oneTrack16BitsStereoNoResampling (lines 1226-1310), the hook    *)
(* getProcessHook returns when kUseNewMixer is false (lines 1770-1772).     *)

RECURSIVE LegacyLoop(_, _, _)

\* The body of the loop after getNextBuffer (lines 1246-1308).
LegacyGot(m, name, numFrames) ==
    IF ~m.io[name].mIn
    THEN Write(m, Event("memset", name, m.tracks[name].mainBuffer, numFrames, <<>>))
    ELSE IF m.tracks[name].mMixerFormat \notin {"PCM_FLOAT", "PCM_16_BIT"}
    THEN Crash(m, "process__oneTrack16BitsStereoNoResampling: bad mixer format")
    ELSE LegacyLoop(
           Release(Write(m, Event("mulRL", name, m.tracks[name].mainBuffer,
                                  m.io[name].bufFrames, <<>>)),
                   name),
           name, numFrames - m.io[name].bufFrames)

\* while (numFrames) { ... } (lines 1243-1309)
LegacyLoop(m, name, numFrames) ==
    IF numFrames = 0 \/ ~Ok(m) THEN m
    ELSE LegacyGot(Acquire(m, name, numFrames, "never"), name, numFrames)

\* The hook as written: its check is mEnabled.size() != 0 (line 1230).  Past
\* the check mEnabled is empty, and mEnabled[0] (line 1232) reads whatever the
\* vector's storage holds: stale is that name.
process__oneTrack16BitsStereoNoResampling(m, stale) ==
    IF Len(m.enabled) # 0
    THEN Crash(m, "process__oneTrack16BitsStereoNoResampling: != 1 tracks enabled")
    ELSE IF Missing(m, stale)
    THEN Crash(m, "process__oneTrack16BitsStereoNoResampling: null track")
    ELSE LegacyLoop(m, stale, mFrameCount)

----------------------------------------------------------------------------
(* process__validate (lines 621-772) and process() (header 140-144).       *)

MinOf(S) == CHOOSE x \in S : \A y \in S : x <= y

RECURSIVE Ascending(_)
Ascending(S) == IF S = {} THEN <<>> ELSE <<MinOf(S)>> \o Ascending(S \ {MinOf(S)})

\* Iteration in the order the tracks were created: a variant the properties
\* must tell from the iteration of std::map.
TrackOrder_creation(tracks) == SelectSeq(created, LAMBDA n : n \in DOMAIN tracks)

\* for (const auto &pair : mTracks): std::map iterates in ascending name order.
TrackOrder(tracks) == Ascending(DOMAIN tracks)

\* NEEDS_CHANNEL_1 + channelCount - 1 (line 642); with channelCount == 0 it is
\* 0xFFFFFFFF, which sets every flag.
ChannelNeeds(channelCount) ==
    IF channelCount = 0 THEN Needs(7, TRUE, TRUE, TRUE)
    ELSE Needs((channelCount - 1) % 8, FALSE, FALSE, FALSE)

\* n of lines 640-655.
NeedsFrom(base, t) ==
    Needs(base.chan,
          base.mute \/ (~(t.volumeInc[0] # 0 \/ t.volumeInc[1] # 0)
                        /\ ~doesResample(t) /\ isVolumeMuted(t)),
          base.resample \/ doesResample(t),
          base.aux \/ (t.auxLevel # 0 /\ t.auxBuffer # NULL))

NeedsOfTrack(t) == NeedsFrom(ChannelNeeds(t.channelCount), t)

\* The track type lines 663-703 ask getTrackHook for.
TrackTypeOf(t, n) ==
    IF n.resample
    THEN IF n.chan = 0 /\ t.channelMask = AUDIO_CHANNEL_OUT_MONO
            /\ isAudioChannelPositionMask(t.mMixerChannelMask)
         THEN "TRACKTYPE_RESAMPLEMONO"
         ELSE IF n.chan >= 1 /\ useStereoVolume(t) THEN "TRACKTYPE_RESAMPLESTEREO"
         ELSE "TRACKTYPE_RESAMPLE"
    ELSE IF n.chan = 0
    THEN IF isAudioChannelPositionMask(t.mMixerChannelMask)
            /\ t.channelMask = AUDIO_CHANNEL_OUT_MONO
         THEN "TRACKTYPE_NORESAMPLEMONO" ELSE "TRACKTYPE_NORESAMPLE"
    ELSE IF useStereoVolume(t) THEN "TRACKTYPE_NORESAMPLESTEREO"
    ELSE "TRACKTYPE_NORESAMPLE"

\* The hook lines 657-704 give a track with needs n.
SelectTrackHook(t, n) ==
    IF n.mute THEN HookResult(ptr_track__nop)
    ELSE getTrackHook(TrackTypeOf(t, n), t.mMixerChannelCount,
                      t.mMixerInFormat, t.mMixerFormat)

\* [fatal, t]: track t with the needs n and the hook r of the first pass.
Configured(t, n, r) ==
    [fatal |-> r.fatal, t |-> [t EXCEPT !.needs = n, !.hook = r.hook]]

WithNeeds(t, n) == Configured(t, n, SelectTrackHook(t, n))

Configure(t) == WithNeeds(t, NeedsOfTrack(t))

\* The locals of process__validate after the first pass (lines 657-704).
all16BitsStereoNoResample(tracks, enabled) ==
    \A i \in 1..Len(enabled) :
        LET n == tracks[enabled[i]].needs
        IN  n.mute \/ ~(n.aux \/ n.resample \/ n.chan = 0)

resampling(tracks, enabled) ==
    \E i \in 1..Len(enabled) :
        ~tracks[enabled[i]].needs.mute /\ tracks[enabled[i]].needs.resample

volumeRamp(tracks, enabled) ==
    \E i \in 1..Len(enabled) :
        tracks[enabled[i]].volumeInc[0] # 0 \/ tracks[enabled[i]].volumeInc[1] # 0

\* The mixer after the first pass: cfg[n] is Configure of track n.
FirstPass(m, enabled, cfg) ==
    IF \E i \in 1..Len(enabled) : cfg[enabled[i]].fatal # NoFatal
    THEN Crash(m, cfg[SelectSeq(enabled, LAMBDA n : cfg[n].fatal # NoFatal)[1]].fatal)
    ELSE [m EXCEPT
            !.tracks = [n \in DOMAIN m.tracks |->
                          IF m.tracks[n].enabled THEN cfg[n].t ELSE m.tracks[n]],
            !.enabled = enabled,
            !.groups = [b \in {m.tracks[enabled[i]].mainBuffer : i \in 1..Len(enabled)} |->
                          SelectSeq(enabled, LAMBDA n : m.tracks[n].mainBuffer = b)]]

\* Lines 630-705: mEnabled, mGroups, needs and track hooks, in name order.
ValidateTracks(m) ==
    FirstPass(m,
              SelectSeq(TrackOrder(m.tracks), LAMBDA n : m.tracks[n].enabled),
              [n \in DOMAIN m.tracks |-> Configure(m.tracks[n])])

OneTrackHook(t) ==
    getProcessHook("PROCESSTYPE_NORESAMPLEONETRACK", t.mMixerChannelCount,
                   t.mMixerInFormat, t.mMixerFormat, useStereoVolume(t))

WithProcessHook(m, r) ==
    IF r.fatal # NoFatal THEN Crash(m, r.fatal) ELSE [m EXCEPT !.hook = r.hook]

\* select the processing hooks (lines 707-737); all16 keeps the local
\* all16BitsStereoNoResample for the second pass.
SelectProcessHook(m) ==
    IF ~Ok(m) THEN m
    ELSE IF Len(m.enabled) = 0 THEN [m EXCEPT !.hook = ptr_process__nop, !.all16 = TRUE]
    ELSE IF resampling(m.tracks, m.enabled)
    THEN [m EXCEPT !.outputTemp = TRUE, !.resampleTemp = TRUE,
                   !.hook = ptr_process__genericResampling,
                   !.all16 = all16BitsStereoNoResample(m.tracks, m.enabled)]
    ELSE IF all16BitsStereoNoResample(m.tracks, m.enabled)
            /\ ~volumeRamp(m.tracks, m.enabled) /\ Len(m.enabled) = 1
            /\ ~m.tracks[m.enabled[1]].needs.mute
    THEN WithProcessHook([m EXCEPT !.all16 = TRUE], OneTrackHook(m.tracks[m.enabled[1]]))
    ELSE [m EXCEPT !.hook = ptr_process__genericNoResampling,
                   !.all16 = all16BitsStereoNoResample(m.tracks, m.enabled)]

MutedNow(t) == ~doesResample(t) /\ isVolumeMuted(t)

\* Lines 750-758: tracks whose volume is now zero become NEEDS_MUTE / track__nop.
MuteTracks(m) ==
    [m EXCEPT !.tracks =
        [n \in DOMAIN m.tracks |->
            IF (\E i \in 1..Len(m.enabled) : m.enabled[i] = n) /\ MutedNow(m.tracks[n])
            THEN [m.tracks[n] EXCEPT !.needs.mute = TRUE, !.hook = ptr_track__nop]
            ELSE m.tracks[n]]]

\* A second pass that keeps the hook of the first pass: a variant the
\* properties must tell from lines 759-770.
SecondHook_keepsFirst(m) == m

\* Lines 759-770, on the mixer with the muted tracks marked.
SecondHook(m) ==
    IF \A i \in 1..Len(m.enabled) : MutedNow(m.tracks[m.enabled[i]])
    THEN [m EXCEPT !.hook = ptr_process__nop]
    ELSE IF m.all16 /\ Len(m.enabled) = 1
    THEN WithProcessHook(m, OneTrackHook(m.tracks[m.enabled[1]]))
    ELSE m

\* The second pass (lines 745-771).
Revalidate(m) ==
    IF ~Ok(m) \/ Len(m.enabled) = 0 THEN m ELSE SecondHook(MuteTracks(m))

preProcess(m) == Log(m, Event("preProcess", 0, NULL, 0, <<>>))

postProcess(m) == IF ~Ok(m) THEN m ELSE Log(m, Event("postProcess", 0, NULL, 0, <<>>))

RECURSIVE process(_)

\* process__validate that returns with itself still installed: a variant the
\* properties must tell from process__validate.
process__validate_staysInstalled(m) ==
    [Revalidate(process(SelectProcessHook(ValidateTracks(m))))
        EXCEPT !.hook = ptr_process__validate]

\* process__validate calls process() once it has selected the hooks (line 743).
process__validate(m) == Revalidate(process(SelectProcessHook(ValidateTracks(m))))

\* (this->*mHook)()
CallHook(m) ==
    IF ~Ok(m) THEN m
    ELSE CASE m.hook[1] = "process__validate" -> process__validate(m)
           [] m.hook[1] = "process__nop" -> process__nop(m)
           [] m.hook[1] = "process__genericNoResampling" -> process__genericNoResampling(m)
           [] m.hook[1] = "process__genericResampling" -> process__genericResampling(m)
           [] m.hook[1] = "process__noResampleOneTrack" -> process__noResampleOneTrack(m)
           [] OTHER -> Crash(m, "null process hook")

\* void process() { preProcess(); (this->*mHook)(); postProcess(); }
process(m) == postProcess(CallHook(preProcess(m)))

----
(* The mixer as a state machine.                                           *)

\* AudioMixerBase(frameCount, sampleRate): no tracks, mHook = process__nop.
Init ==
    /\ mTracks = EmptyMap
    /\ mHook = ptr_process__nop
    /\ mEnabled = <<>>
    /\ mGroups = EmptyMap
    /\ mOutputTemp = FALSE
    /\ mResampleTemp = FALSE
    /\ fatal = NoFatal
    /\ created = <<>>
    /\ events = <<>>
    /\ mState = "STATE_CONSTRUCTED"
    /\ mHandoutTotalBufferCount = 0
    /\ mHandoutOutputBufferCount = 0
    /\ mStatusTracker = TRUE
    /\ marks = <<>>
    /\ res = <<"none", "void">>

Perms(S) == {s \in [1..Cardinality(S) -> S] : \A x \in S : \E i \in DOMAIN s : s[i] = x}

\* The main buffers process() can meet as keys of mGroups.
GroupKeys ==
    DOMAIN mGroups \cup {mTracks[n].mainBuffer : n \in {x \in DOMAIN mTracks : mTracks[x].enabled}}

\* The mixer a process() call leaves behind.
Install(m) ==
    IF m.fatal # NoFatal THEN Abort(m.fatal)
    ELSE /\ mTracks' = m.tracks
         /\ mHook' = m.hook
         /\ mEnabled' = m.enabled
         /\ mGroups' = m.groups
         /\ mOutputTemp' = m.outputTemp
         /\ mResampleTemp' = m.resampleTemp
         /\ events' = m.events
         /\ UNCHANGED <<fatal, created>>

\* One call of process(); plans are the answers of the tracks' providers and
\* order the iteration order of mGroups.
Process(plans, order) ==
    /\ Running
    /\ Install(process(Mixer(mTracks, mHook, mEnabled, mGroups,
                             mOutputTemp, mResampleTemp, plans, order)))

\* Provider plans: only the providers of enabled tracks are asked.
PlansOver(P) ==
    {pl \in [DOMAIN mTracks -> P] : \A n \in DOMAIN mTracks : ~mTracks[n].enabled => pl[n] = <<>>}

Names == 1..MaxTracks
Buffers == {"A", "B"}
Stereo == AUDIO_CHANNEL_OUT_STEREO
Mono == AUDIO_CHANNEL_OUT_MONO

\* Calls of setParameter outside its protocol: a target it does not handle,
\* and for each target it handles a param of another target.
BadParams ==
    {<<"TIMESTRETCH", "PLAYBACK_RATE", 0>>, <<"TRACK", "TEE_BUFFER_FORMAT", 0>>,
     <<"RESAMPLE", "VOLUME0", 0>>, <<"VOLUME", "SAMPLE_RATE", FNum(0)>>,
     <<"RAMP_VOLUME", "MAIN_BUFFER", FNum(0)>>}

\* The control-plane alphabet: tracks 1..MaxTracks, few parameters.
CtlParams ==
    {<<"TRACK", "MAIN_BUFFER", b>> : b \in Buffers}
    \cup {<<"VOLUME", "VOLUME0", FNum(FloatOne)>>, <<"RESAMPLE", "SAMPLE_RATE", 44100>>}
    \cup BadParams

\* A provider that answers every request, one that returns a null buffer at the
\* first request, and one that does so after DryAfter frames.
DryAfter == 24
CtlPlans == {<<>>, <<0>>, <<DryAfter, 0>>}

\* The arguments of create(): a valid pair, a linear PCM format and a
\* compressed format isValidFormat rejects, and a mask of too many channels.
CreateArgs ==
    {<<Stereo, "PCM_16_BIT">>, <<Stereo, "PCM_8_24_BIT">>, <<Stereo, "MP3">>,
     <<ChannelMask("position", MAX_NUM_CHANNELS + 1), "PCM_16_BIT">>}

Next ==
    \/ \E n \in Names, a \in CreateArgs : Create(n, a[1], a[2]) /\ UNCHANGED streamVars
    \/ \E n \in Names : Destroy(n) /\ UNCHANGED streamVars
    \/ \E n \in Names : Enable(n) /\ UNCHANGED streamVars
    \/ \E n \in Names : Disable(n) /\ UNCHANGED streamVars
    \/ \E n \in Names, p \in CtlParams : SetParameter(n, p[1], p[2], p[3]) /\ UNCHANGED streamVars
    \/ \E pl \in PlansOver(CtlPlans), o \in Perms(GroupKeys) : Process(pl, o) /\ UNCHANGED streamVars

Spec == Init /\ [][Next]_vars

----------------------------------------------------------------------------
(* One track under the full parameter alphabet of setParameter.            *)

TrackParams ==
    {<<"TRACK", "CHANNEL_MASK", cm>> : cm \in {Mono, Stereo}}
    \cup {<<"TRACK", "MAIN_BUFFER", b>> : b \in Buffers}
    \cup {<<"TRACK", "AUX_BUFFER", "X">>}
    \cup {<<"TRACK", "FORMAT", f>> : f \in {"PCM_16_BIT", "PCM_FLOAT", "PCM_8_24_BIT"}}
    \cup {<<"TRACK", "MIXER_FORMAT", f>> : f \in {"PCM_16_BIT", "PCM_FLOAT", "PCM_32_BIT"}}
    \cup {<<"TRACK", "MIXER_CHANNEL_MASK", cm>> : cm \in {Mono, Stereo}}
    \cup {<<"RESAMPLE", "SAMPLE_RATE", r>> : r \in {44100, mSampleRate}}
    \cup {<<"RESAMPLE", "RESET", 0>>, <<"RESAMPLE", "REMOVE", 0>>}
    \cup {<<"VOLUME", "VOLUME0", FNum(v)>> : v \in {0, FloatOne}}
    \cup {<<"VOLUME", "AUXLEVEL", FNum(FloatOne)>>}

\* The masks of create(): stereo, and AUDIO_CHANNEL_NONE, which has no channel.
AUDIO_CHANNEL_NONE == ChannelMask("position", 0)
CreateMasks == {Stereo, AUDIO_CHANNEL_NONE}

NextParam ==
    \/ \E cm \in CreateMasks : Create(1, cm, "PCM_16_BIT") /\ UNCHANGED streamVars
    \/ Enable(1) /\ UNCHANGED streamVars
    \/ Disable(1) /\ UNCHANGED streamVars
    \/ \E p \in TrackParams : SetParameter(1, p[1], p[2], p[3]) /\ UNCHANGED streamVars
    \/ \E pl \in PlansOver({<<>>}), o \in Perms(GroupKeys) : Process(pl, o) /\ UNCHANGED streamVars

SpecParam == Init /\ [][NextParam]_vars

----------------------------------------------------------------------------
(* One track under the volume alphabet: every class of float input, both   *)
(* targets, and providers that run dry in the middle of a cycle.            *)

\* 2^-13: a gain below the resolution of the U4.12 integer volume.
TinyGain == FloatOne \div 8192
\* 1 - 2^-24, the float just below 1.0.
NearOne == FloatOne - 32

VolumeInputs ==
    {FNum(v) : v \in {0, TinyGain, NearOne, FloatOne, 3 * (FloatOne \div 2),
                      -(FloatOne \div 2)}}
    \cup {FNaN, FPosInf, FNegInf, FSubnormal}

\* The left gain takes every class of input; the right gain and the aux
\* level take a few.
VolumeCalls ==
    {<<"VOLUME", "VOLUME0", v>> : v \in VolumeInputs}
    \cup {<<"RAMP_VOLUME", "VOLUME0", v>> :
             v \in {FNum(0), FNum(TinyGain), FNum(NearOne), FNum(FloatOne), FPosInf, FNaN}}
    \cup {<<"VOLUME", "VOLUME1", FNum(TinyGain)>>, <<"RAMP_VOLUME", "VOLUME1", FNum(FloatOne)>>}
    \cup {<<"VOLUME", "AUXLEVEL", FNegInf>>, <<"RAMP_VOLUME", "AUXLEVEL", FNum(FloatOne)>>}

\* A provider that answers every request, and one that runs dry after 16 frames.
VolPlans == {<<>>, <<16, 0>>}

\* A new ramp starts from a gain at rest or from a ramp interrupted at 0, one
\* half or 1.
RampGrid == FloatOne \div 2
RampStartsOnGrid(ramp, s) ==
    ramp # 0 => (s.fPrev = s.fSet \/ s.fPrev \in {0, RampGrid, FloatOne})

\* process() runs while every ramped gain is within MaxRampFrames increments
\* of its target: a provider that runs dry every cycle lets
\* process__noResampleOneTrack ramp on without end (line 1476 returns before
\* adjustVolumeRamp).
MaxRampFrames == 32
RampInRange(prev, target, inc) == Abs(prev - target) <= MaxRampFrames * Abs(inc)
RampsInRange ==
    \A n \in DOMAIN mTracks :
        /\ \A c \in Channels :
              RampInRange(mTracks[n].mPrevVolume[c], mTracks[n].mVolume[c],
                          mTracks[n].mVolumeInc[c])
        /\ RampInRange(mTracks[n].mPrevAuxLevel, mTracks[n].mAuxLevel, mTracks[n].mAuxInc)

\* The client sets the buffers up, enables the track, and from then on
\* changes gains and runs process() cycles.
NextVol ==
    \/ Create(1, Stereo, "PCM_16_BIT") /\ UNCHANGED streamVars
    \/ /\ exists(1)
       /\ mTracks[1].mainBuffer # NULL
       /\ mTracks[1].auxBuffer # NULL
       /\ Enable(1)
       /\ UNCHANGED streamVars
    \/ \E p \in {<<"TRACK", "MAIN_BUFFER", "A">>, <<"TRACK", "AUX_BUFFER", "X">>} :
          /\ exists(1)
          /\ ~mTracks[1].enabled
          /\ SetParameter(1, p[1], p[2], p[3])
          /\ UNCHANGED streamVars
    \/ \E p \in VolumeCalls :
          /\ exists(1)
          /\ mTracks[1].enabled
          /\ RampIncExact(p[3], RampLength(p[1]), ParamVars(mTracks[1], p[2]))
          /\ RampStartsOnGrid(RampLength(p[1]), ParamVars(mTracks[1], p[2]))
          /\ SetParameter(1, p[1], p[2], p[3])
          /\ UNCHANGED streamVars
    \/ \E pl \in PlansOver(VolPlans), o \in Perms(GroupKeys) :
          RampsInRange /\ Process(pl, o) /\ UNCHANGED streamVars

SpecVol == Init /\ [][NextVol]_vars

----------------------------------------------------------------------------
(* Two tracks, with and without channels, under the calls that give a      *)
(* track a resampler, take it away or rebuild it.                           *)

RateAndMaskParams ==
    {<<"TRACK", "MAIN_BUFFER", "A">>,
     <<"RESAMPLE", "SAMPLE_RATE", 44100>>, <<"RESAMPLE", "REMOVE", 0>>}
    \cup {<<"TRACK", "CHANNEL_MASK", cm>> : cm \in {Mono, Stereo}}
    \cup {<<"TRACK", "MIXER_CHANNEL_MASK", cm>> : cm \in {Mono, Stereo}}

NextMask ==
    \/ \E n \in Names, cm \in CreateMasks : Create(n, cm, "PCM_16_BIT") /\ UNCHANGED streamVars
    \/ \E n \in Names : Enable(n) /\ UNCHANGED streamVars
    \/ \E n \in Names, p \in RateAndMaskParams : SetParameter(n, p[1], p[2], p[3]) /\ UNCHANGED streamVars
    \/ \E pl \in PlansOver({<<>>}), o \in Perms(GroupKeys) : Process(pl, o) /\ UNCHANGED streamVars

SpecMask == Init /\ [][NextMask]_vars

----------------------------------------------------------------------------
(* Stereo tracks of a mixer whose process() runs the legacy single-track    *)
(* hook wherever process__validate installed the single-track hook.         *)

\* The configuration getProcessHook gives the legacy hook for, were
\* kUseNewMixer false: the single-track case with FCC_2 channels.
LegacyConfig ==
    /\ mHook[1] = "process__noResampleOneTrack"
    /\ \A i \in DOMAIN mEnabled :
          mEnabled[i] \in DOMAIN mTracks /\ mTracks[mEnabled[i]].channelCount = 2

\* process() with process__oneTrack16BitsStereoNoResampling as the hook.
LegacyProcess(plans, stale) ==
    /\ Running
    /\ LegacyConfig
    /\ Install(postProcess(process__oneTrack16BitsStereoNoResampling(
                   preProcess(Mixer(mTracks, mHook, mEnabled, mGroups, mOutputTemp,
                                    mResampleTemp, plans, <<>>)), stale)))

NextLegacy ==
    \/ \E n \in Names : Create(n, Stereo, "PCM_16_BIT") /\ UNCHANGED streamVars
    \/ \E n \in Names : Destroy(n) /\ UNCHANGED streamVars
    \/ \E n \in Names : Enable(n) /\ UNCHANGED streamVars
    \/ \E n \in Names : Disable(n) /\ UNCHANGED streamVars
    \/ \E n \in Names, b \in Buffers : SetParameter(n, "TRACK", "MAIN_BUFFER", b) /\ UNCHANGED streamVars
    \/ \E n \in Names : SetParameter(n, "VOLUME", "VOLUME0", FNum(FloatOne)) /\ UNCHANGED streamVars
    \/ \E pl \in PlansOver(CtlPlans), o \in Perms(GroupKeys) : Process(pl, o) /\ UNCHANGED streamVars
    \/ \E pl \in PlansOver(CtlPlans), stale \in Names : LegacyProcess(pl, stale) /\ UNCHANGED streamVars

SpecLegacy == Init /\ [][NextLegacy]_vars

----------------------------------------------------------------------------
(* Camera3IOStreamBase (Camera3IOStreamBase.cpp): the buffer accounting of  *)
(* a camera stream and its reports to the StatusTracker.                    *)

\* Buffers handed out at once, and StatusTracker calls followed.
MaxHandout == 3
MaxMarks == 4

\* The values of Camera3Stream::mState the file names.
StreamStates ==
    {"STATE_ERROR", "STATE_CONSTRUCTED", "STATE_IN_CONFIG", "STATE_IN_RECONFIG",
     "STATE_CONFIGURED", "STATE_PREPARING", "STATE_ABANDONED"}

\* mState != STATE_IN_CONFIG && mState != STATE_IN_RECONFIG &&
\* mState != STATE_PREPARING (lines 195-196 and 284-285)
ReportsBusy(state) ==
    state \notin {"STATE_IN_CONFIG", "STATE_IN_RECONFIG", "STATE_PREPARING"}

\* A size_t is kept as the integer congruent to it modulo 2^64 that is least
\* in absolute value: -1 is SIZE_MAX, the value 0 - 1 wraps to.  SizeLE is
\* the order of the unsigned values.
SizeLE(a, b) == IF (a >= 0) = (b >= 0) THEN a <= b ELSE a >= 0

\* statusTracker->markComponentActive / markComponentIdle, if the weak
\* pointer can be promoted.
Mark(call) == IF mStatusTracker THEN Append(marks, call) ELSE marks

\* void handoutBufferLocked(buffer, handle, acquireFence, releaseFence, status, output)
handoutBufferLocked(output) ==
    /\ marks' = IF mHandoutTotalBufferCount = 0 /\ ReportsBusy(mState)
                THEN Mark("markComponentActive") ELSE marks
    /\ mHandoutTotalBufferCount' = mHandoutTotalBufferCount + 1
    /\ mHandoutOutputBufferCount' =
          IF output THEN mHandoutOutputBufferCount + 1 ELSE mHandoutOutputBufferCount
    /\ res' = <<"handoutBufferLocked", "void">>
    /\ UNCHANGED <<mState, mStatusTracker>>

\* status_t returnBufferPreconditionCheckLocked() const
returnBufferPreconditionCheckLocked ==
    IF mState = "STATE_CONSTRUCTED" THEN "INVALID_OPERATION"
    ELSE IF mHandoutTotalBufferCount = 0 THEN "INVALID_OPERATION"
    ELSE "OK"

\* status_t returnAnyBufferLocked(buffer, timestamp, readoutTimestamp, output, ...);
\* checked is what the subclass's returnBufferCheckedLocked returns.
returnAnyBufferLocked(output, checked) ==
    IF returnBufferPreconditionCheckLocked # "OK"
    THEN /\ res' = <<"returnAnyBufferLocked", returnBufferPreconditionCheckLocked>>
         /\ UNCHANGED <<mState, mHandoutTotalBufferCount, mHandoutOutputBufferCount,
                        mStatusTracker, marks>>
    ELSE /\ mHandoutOutputBufferCount' =
               IF output THEN mHandoutOutputBufferCount - 1 ELSE mHandoutOutputBufferCount
         /\ mHandoutTotalBufferCount' = mHandoutTotalBufferCount - 1
         /\ marks' = IF mHandoutTotalBufferCount - 1 = 0 /\ ReportsBusy(mState)
                     THEN Mark("markComponentIdle") ELSE marks
         /\ res' = <<"returnAnyBufferLocked", checked>>
         /\ UNCHANGED <<mState, mStatusTracker>>

\* disconnectLocked that looks at the state alone: a variant the properties
\* must tell from disconnectLocked.
disconnectLocked_ignoresHandout ==
    IF mState \notin {"STATE_IN_RECONFIG", "STATE_CONFIGURED", "STATE_ABANDONED"}
    THEN "-ENOTCONN"
    ELSE "OK"

\* status_t disconnectLocked(): what it returns; it assigns nothing.
disconnectLocked ==
    IF mState \notin {"STATE_IN_RECONFIG", "STATE_CONFIGURED", "STATE_ABANDONED"}
    THEN "-ENOTCONN"
    ELSE IF mHandoutTotalBufferCount # 0 THEN "INVALID_OPERATION"
    ELSE "OK"

\* status_t configureQueueLocked(): what it returns; it assigns nothing.
configureQueueLocked ==
    CASE mState = "STATE_IN_RECONFIG" -> disconnectLocked
      [] mState = "STATE_IN_CONFIG" -> "OK"
      [] OTHER -> "INVALID_OPERATION"

\* A call that returns a status and leaves the stream as it is.
Query(name, status) ==
    /\ res' = <<name, status>>
    /\ UNCHANGED <<mState, mHandoutTotalBufferCount, mHandoutOutputBufferCount,
                   mStatusTracker, marks>>

\* Camera3Stream moves the stream to another state.
SetState(state) ==
    /\ mState' = state
    /\ res' = <<"setState", "void">>
    /\ UNCHANGED <<mHandoutTotalBufferCount, mHandoutOutputBufferCount,
                   mStatusTracker, marks>>

\* The StatusTracker is destroyed: mStatusTracker.promote() yields null from now on.
TrackerGone ==
    /\ mStatusTracker
    /\ mStatusTracker' = FALSE
    /\ res' = <<"trackerGone", "void">>
    /\ UNCHANGED <<mState, mHandoutTotalBufferCount, mHandoutOutputBufferCount, marks>>

NextStream ==
    \/ \E output \in BOOLEAN :
          /\ mHandoutTotalBufferCount < MaxHandout
          /\ mHandoutOutputBufferCount < MaxHandout
          /\ Len(marks) < MaxMarks
          /\ handoutBufferLocked(output)
          /\ UNCHANGED mixerVars
    \/ \E output \in BOOLEAN, checked \in {"OK", "NO_INIT"} :
          /\ mHandoutOutputBufferCount > -MaxHandout
          /\ Len(marks) < MaxMarks
          /\ returnAnyBufferLocked(output, checked)
          /\ UNCHANGED mixerVars
    \/ Query("disconnectLocked", disconnectLocked) /\ UNCHANGED mixerVars
    \/ Query("configureQueueLocked", configureQueueLocked) /\ UNCHANGED mixerVars
    \/ \E state \in StreamStates : SetState(state) /\ UNCHANGED mixerVars
    \/ TrackerGone /\ UNCHANGED mixerVars

SpecStream == Init /\ [][NextStream]_vars

----------------------------------------------------------------------------
(* Properties.                                                             *)

\* The values of a track the selection of hooks in process__validate reads.
HookInputs(t) ==
    <<t.channelMask, t.mMixerChannelMask, t.mainBuffer, t.auxBuffer, t.mFormat,
      t.mMixerFormat, t.sampleRate, doesResample(t), t.mVolume, t.mAuxLevel>>

\* C1: every step that changes a value of an enabled track the hook selection
\* depends on (channel masks, main and aux buffer, format, mixer format, sample
\* rate, resampler presence, the committed gains) leaves mHook =
\* process__validate.
C1_ChangeInvalidates ==
    [][\A n \in DOMAIN mTracks \cap DOMAIN mTracks' :
          mTracks[n].enabled /\ HookInputs(mTracks[n]) # HookInputs(mTracks'[n])
              => mHook' = ptr_process__validate]_vars

EnabledNames == {n \in DOMAIN mTracks : mTracks[n].enabled}
Elements(seq) == {seq[i] : i \in DOMAIN seq}
StrictlyAscending(seq) == \A i, j \in DOMAIN seq : i < j => seq[i] < seq[j]

\* C2: whenever mHook is not process__validate, mEnabled holds exactly the
\* names of the enabled tracks, once each, and mGroups maps exactly the main
\* buffers of the enabled tracks, each to the enabled tracks with that main
\* buffer, in a non-empty list in strictly ascending name order.
C2_EnabledAndGroupsExact ==
    mHook # ptr_process__validate =>
        /\ Elements(mEnabled) = EnabledNames
        /\ Len(mEnabled) = Cardinality(EnabledNames)
        /\ DOMAIN mGroups = {mTracks[n].mainBuffer : n \in EnabledNames}
        /\ \A b \in DOMAIN mGroups :
              /\ Elements(mGroups[b]) = {n \in EnabledNames : mTracks[n].mainBuffer = b}
              /\ mGroups[b] # <<>>
              /\ StrictlyAscending(mGroups[b])

\* Two enabled tracks, created in descending order, share one group under a
\* concrete hook.
C2_Witness ==
    /\ mHook = ptr_process__genericNoResampling
    /\ created = <<2, 1>>
    /\ EnabledNames = {1, 2}
    /\ DOMAIN mGroups = {"A"}
    /\ mGroups["A"] = <<1, 2>>

\* What validate leaves behind, written as a function of the tracks alone:
\* the hook of a track, and the process hook.
HookOfTrack(t) == SelectTrackHook(t, t.needs).hook

OneTrackCase ==
    /\ Cardinality(EnabledNames) = 1
    /\ \A n \in EnabledNames :
          ~(mTracks[n].needs.aux \/ mTracks[n].needs.resample \/ mTracks[n].needs.chan = 0)

HookOfTracks ==
    IF \A n \in EnabledNames : MutedNow(mTracks[n]) THEN ptr_process__nop
    ELSE IF OneTrackCase
    THEN OneTrackHook(mTracks[CHOOSE n \in EnabledNames : TRUE]).hook
    ELSE IF \E n \in EnabledNames : ~mTracks[n].needs.mute /\ mTracks[n].needs.resample
    THEN ptr_process__genericResampling
    ELSE ptr_process__genericNoResampling

\* The hook calls of the last process() between two clears of the
\* accumulator come in ascending name order.
AccumulatedAscending ==
    \A i, j \in DOMAIN events :
        (/\ i < j
         /\ events[i].ev = "hook" /\ events[j].ev = "hook"
         /\ \A k \in (i + 1)..(j - 1) : events[k].ev # "clear")
            => events[i].name <= events[j].name

ValidatedFromTracks ==
    mHook # ptr_process__validate =>
        /\ mEnabled = Ascending(EnabledNames)
        /\ mGroups = [b \in {mTracks[n].mainBuffer : n \in EnabledNames} |->
                        Ascending({n \in EnabledNames : mTracks[n].mainBuffer = b})]

\* C3: what validate leaves behind does not depend on the order in which the
\* tracks were created and enabled: mEnabled and every list of mGroups are
\* the enabled names in ascending order, the hook of every enabled track and
\* mHook are functions of the tracks' parameters, and within one process()
\* call the tracks of a group are accumulated in ascending name order.
C3_OrderIndependent ==
    /\ [](ValidatedFromTracks /\ AccumulatedAscending)
    /\ [][mHook = ptr_process__validate /\ mHook' # ptr_process__validate
            => /\ mHook' = HookOfTracks'
               /\ \A n \in EnabledNames' : mTracks'[n].hook = HookOfTrack(mTracks'[n])]_vars

\* Track 2 was created before track 1; process() has validated and called
\* the hook of track 1 before that of track 2 on their common buffer.
C3_Witness ==
    /\ created = <<2, 1>>
    /\ mEnabled = <<1, 2>>
    /\ mHook = ptr_process__genericNoResampling
    /\ \E i, j \in DOMAIN events :
          /\ i < j
          /\ events[i].ev = "hook" /\ events[i].name = 1
          /\ events[j].ev = "hook" /\ events[j].name = 2
          /\ \A k \in (i + 1)..(j - 1) : events[k].ev # "clear"

\* The calls of setParameter NextVol can make on track n in this state.
VolumeCallsNow(n) ==
    {p \in VolumeCalls :
        /\ mTracks[n].enabled
        /\ RampIncExact(p[3], RampLength(p[1]), ParamVars(mTracks[n], p[2]))
        /\ RampStartsOnGrid(RampLength(p[1]), ParamVars(mTracks[n], p[2]))}

\* The ramp variables of the parameter after the call p on track n.
VarsAfter(n, p) ==
    ParamVars(SetVolumeParameter(mTracks[n], p[1], p[2], p[3]).t, p[2])

\* The gain a requested value stands for.
SanitisedGain(input) ==
    IF input.cls \in {"nan", "sub"} \/ FNegative(input) THEN 0
    ELSE IF input.cls = "inf" \/ input.v > FloatOne THEN FloatOne
    ELSE input.v

\* C4: every committed float gain lies in [0, 1.0] and every committed
\* integer gain in [0, UNITY_GAIN_INT], and a VOLUME / RAMP_VOLUME call
\* commits 0 for a NaN, subnormal or negative input, 1.0 for +infinity or an
\* input above 1.0, and the input itself otherwise.
C4_VolumeBounds ==
    \A n \in DOMAIN mTracks :
        /\ \A c \in Channels :
              /\ 0 <= mTracks[n].mVolume[c] /\ mTracks[n].mVolume[c] <= FloatOne
              /\ 0 <= mTracks[n].volume[c] /\ mTracks[n].volume[c] <= UNITY_GAIN_INT
        /\ 0 <= mTracks[n].mAuxLevel /\ mTracks[n].mAuxLevel <= FloatOne
        /\ 0 <= mTracks[n].auxLevel /\ mTracks[n].auxLevel <= UNITY_GAIN_INT
        /\ \A p \in VolumeCallsNow(n) :
              /\ VarsAfter(n, p).fSet = SanitisedGain(p[3])
              /\ VarsAfter(n, p).intSet \in 0..UNITY_GAIN_INT

\* Unity gain on channel 0 and on the aux level, a gain below the integer
\* resolution on channel 1, with a NaN and a +infinity call at hand.
C4_Witness ==
    /\ exists(1)
    /\ mTracks[1].enabled
    /\ mTracks[1].mVolume = Pair(FloatOne, TinyGain)
    /\ mTracks[1].volume = Pair(UNITY_GAIN_INT, 0)
    /\ mTracks[1].mAuxLevel = FloatOne
    /\ {<<"VOLUME", "VOLUME0", FNaN>>, <<"VOLUME", "VOLUME0", FPosInf>>}
           \subseteq VolumeCallsNow(1)

\* C5: a VOLUME / RAMP_VOLUME call whose sanitised gain equals the committed
\* float gain reports no change: the track is left as it was and mHook is not
\* invalidated.
C5_EqualGainNoChange ==
    \A n \in DOMAIN mTracks :
        \A p \in VolumeCallsNow(n) :
            SanitisedGain(p[3]) = ParamVars(mTracks[n], p[2]).fSet
                => /\ ~SetVolumeParameter(mTracks[n], p[1], p[2], p[3]).invalidate
                   /\ SetVolumeParameter(mTracks[n], p[1], p[2], p[3]).t = mTracks[n]

\* The call p asks for a ramp from the variables s that both representations
\* admit: a ramp length above 0, a float increment that is not 0 and moves
\* the larger of the two gains, and an integer increment that is not 0.
RampAdmissible(p, s) ==
    /\ p[1] = "RAMP_VOLUME"
    /\ mFrameCount > 0
    /\ (SanitisedGain(p[3]) - s.fPrev) \div mFrameCount # 0
    /\ FAdd(FMax(SanitisedGain(p[3]), s.fPrev),
            (SanitisedGain(p[3]) - s.fPrev) \div mFrameCount)
          # FMax(SanitisedGain(p[3]), s.fPrev)
    /\ CDiv(IntVolumeOf(SanitisedGain(p[3])) * 65536 - s.intPrev, mFrameCount) # 0

Snapped(v) ==
    /\ v.fInc = 0 /\ v.intInc = 0
    /\ v.intPrev = v.intSet * 65536
    /\ v.fPrev = v.fSet

\* C6: a gain change leaves non-zero increments only if it is a RAMP_VOLUME
\* with a ramp length above 0 whose float and integer increments are both
\* admissible, and then keeps both prev fields; in every other case both
\* increments are 0 and both prev fields equal the committed value.  After
\* every call the float increment is non-zero iff the integer increment is.
C6_RampAdmission ==
    \A n \in DOMAIN mTracks :
        \A p \in VolumeCallsNow(n) :
            /\ VarsAfter(n, p).fInc # 0 <=> VarsAfter(n, p).intInc # 0
            /\ SetVolumeParameter(mTracks[n], p[1], p[2], p[3]).invalidate
                  => IF RampAdmissible(p, ParamVars(mTracks[n], p[2]))
                     THEN /\ VarsAfter(n, p).fInc # 0 /\ VarsAfter(n, p).intInc # 0
                          /\ VarsAfter(n, p).fPrev = ParamVars(mTracks[n], p[2]).fPrev
                          /\ VarsAfter(n, p).intPrev = ParamVars(mTracks[n], p[2]).intPrev
                     ELSE Snapped(VarsAfter(n, p))

\* A ramp from 0 to 1.0 has started on channel 0 in both representations; a
\* ramp to a gain below the integer resolution is at hand, which the float
\* side admits and the integer side does not.
C6_Witness ==
    /\ exists(1)
    /\ mTracks[1].mVolume[0] = FloatOne /\ mTracks[1].mPrevVolume[0] = 0
    /\ mTracks[1].mVolumeInc[0] = FloatOne \div mFrameCount
    /\ mTracks[1].volumeInc[0] = (UNITY_GAIN_INT * 65536) \div mFrameCount
    /\ mTracks[1].prevVolume[0] = 0
    /\ <<"RAMP_VOLUME", "VOLUME0", FNum(TinyGain)>> \in VolumeCallsNow(1)
    /\ ~RampAdmissible(<<"RAMP_VOLUME", "VOLUME0", FNum(TinyGain)>>,
                       ParamVars(mTracks[1], "VOLUME0"))
    /\ Snapped(VarsAfter(1, <<"RAMP_VOLUME", "VOLUME0", FNum(TinyGain)>>))

\* C7: between operations, a channel with no integer ramp in progress
\* (volumeInc[c] == 0) has prevVolume[c] == volume[c] << 16.
C7_PrevMatchesVolume ==
    \A n \in DOMAIN mTracks :
        \A c \in Channels :
            mTracks[n].volumeInc[c] = 0
                => mTracks[n].prevVolume[c] = mTracks[n].volume[c] * 65536

\* The last process() got every frame it asked its providers for.
FullySupplied(ev) ==
    /\ ev # <<>>
    /\ \A i \in DOMAIN ev :
          ev[i].ev = "getNextBuffer" => ev[i].frames = ev[i].hook[1]

\* Track n is the only track, enabled, with a ramp started on some channel
\* and not yet seen by process().
RampStarted(n) ==
    /\ DOMAIN mTracks = {n}
    /\ mTracks[n].enabled
    /\ mHook = ptr_process__validate
    /\ \E c \in Channels : mTracks[n].volumeInc[c] # 0 /\ mTracks[n].mVolumeInc[c] # 0

RampComplete(t, c) ==
    /\ t.volumeInc[c] = 0 /\ t.mVolumeInc[c] = 0
    /\ t.prevVolume[c] = t.volume[c] * 65536
    /\ t.mPrevVolume[c] = t.mVolume[c]

\* C8: for a single enabled track on which a ramp has started, one process()
\* cycle whose provider supplies every frame leaves the ramp complete in both
\* representations on both channels.
C8_RampCompleteAfterCycle ==
    [][\A n \in DOMAIN mTracks :
          RampStarted(n) /\ FullySupplied(events')
              => \A c \in Channels : RampComplete(mTracks'[n], c)]_vars

\* Track n after the next volumeMix of BLOCKSIZE frames on a ramping track,
\* that is immediately after its call of adjustVolumeRamp in float mode.
AfterAdjust(n, aux) == volumeMix(mTracks[n], BLOCKSIZE, aux, TRUE, TRUE, TRUE)

RampingTracks == {n \in DOMAIN mTracks : mTracks[n].enabled /\ needsRamp(mTracks[n])}

\* C9 as the spec states it: immediately after adjustVolumeRamp, prevVolume[c]
\* is within 1 lsb of u4_28_from_float(mPrevVolume[c]) on every channel.
C9_PrevWithinOneLsb ==
    \A n \in RampingTracks, aux \in BOOLEAN :
        \A c \in Channels :
            Abs(AfterAdjust(n, aux).prevVolume[c]
                - u4_28_from_float(AfterAdjust(n, aux).mPrevVolume[c])) <= 1

\* C9, corrected: immediately after adjustVolumeRamp in float mode, every
\* channel either has just completed its ramp (both increments 0,
\* prevVolume[c] == volume[c] << 16 and mPrevVolume[c] == mVolume[c]) or has
\* prevVolume[c] == u4_28_from_float(mPrevVolume[c]) exactly.
C9_PrevSyncedOrComplete ==
    \A n \in RampingTracks, aux \in BOOLEAN :
        \A c \in Channels :
            \/ RampComplete(AfterAdjust(n, aux), c)
            \/ AfterAdjust(n, aux).prevVolume[c]
                 = u4_28_from_float(AfterAdjust(n, aux).mPrevVolume[c])

\* Channel 0 is half-way through a ramp to a gain off the U4.12 grid, which
\* the next call completes, and channel 1 starts a ramp the call leaves in
\* progress: both branches of adjustVolumeRamp are taken.
C9_Witness ==
    /\ 1 \in RampingTracks
    /\ mTracks[1].mVolume[0] = NearOne
    /\ mTracks[1].mVolumeInc[0] # 0
    /\ RampComplete(AfterAdjust(1, FALSE), 0)
    /\ AfterAdjust(1, FALSE).prevVolume[0]
          # u4_28_from_float(AfterAdjust(1, FALSE).mPrevVolume[0])
    /\ mTracks[1].mVolumeInc[1] # 0
    /\ AfterAdjust(1, FALSE).mVolumeInc[1] # 0
    /\ AfterAdjust(1, FALSE).prevVolume[1] # mTracks[1].prevVolume[1]

\* C10 as the spec states it: a track has a resampler iff its sampleRate
\* differs from the device sample rate.
C10_ResamplerIffRateDiffers ==
    \A n \in DOMAIN mTracks :
        doesResample(mTracks[n]) <=> mTracks[n].sampleRate # mSampleRate

\* C10, corrected: a track whose sampleRate differs from the device sample
\* rate has a resampler; put the other way, a track without a resampler runs
\* at the device sample rate.
C10_RateDiffersImpliesResampler ==
    \A n \in DOMAIN mTracks :
        mTracks[n].sampleRate # mSampleRate => doesResample(mTracks[n])

\* setParameter(RESAMPLE, SAMPLE_RATE, 44100) has given the track its resampler.
C10_Witness ==
    /\ exists(1)
    /\ mTracks[1].sampleRate = 44100
    /\ doesResample(mTracks[1])

\* The sample rates setParameter(RESAMPLE, SAMPLE_RATE) is called with.
SampleRates == {p[3] : p \in {q \in TrackParams : q[2] = "SAMPLE_RATE"}}

\* The mixer but for the registry of tracks and the log of the last cycle.
MixerState == <<mHook, mEnabled, mGroups, mOutputTemp, mResampleTemp, fatal, created>>

\* C11: setParameter(RESAMPLE, SAMPLE_RATE, r) creates a resampler iff the
\* track has none and r is not the device rate; it keeps a resampler the track
\* has (r equal to the device rate leaves it in place, sampleRate at the
\* device rate); mHook is process__validate afterwards if sampleRate changed,
\* and nothing changes if it did not.
C11_SampleRateParameter ==
    [][\A n \in DOMAIN mTracks, r \in SampleRates :
          SetParameter(n, "RESAMPLE", "SAMPLE_RATE", r)
              => /\ (~doesResample(mTracks[n]) /\ doesResample(mTracks'[n]))
                        <=> (~doesResample(mTracks[n]) /\ r # mSampleRate)
                 /\ doesResample(mTracks[n])
                        => mTracks'[n].mResampler = mTracks[n].mResampler
                 /\ doesResample(mTracks[n]) /\ r = mSampleRate
                        => mTracks'[n].sampleRate = mSampleRate
                 /\ mTracks'[n].sampleRate = r
                 /\ mTracks'[n] = [mTracks[n] EXCEPT !.sampleRate = mTracks'[n].sampleRate,
                                                     !.mResampler = mTracks'[n].mResampler]
                 /\ IF mTracks'[n].sampleRate # mTracks[n].sampleRate
                    THEN mHook' = ptr_process__validate
                         /\ UNCHANGED <<mEnabled, mGroups, mOutputTemp, mResampleTemp,
                                        fatal, created>>
                    ELSE UNCHANGED <<mTracks, MixerState>>]_vars

\* A resampler created for 44100 Hz lingers on a track set back to the device
\* rate, and the change of rate has invalidated the hook.
C11_Witness ==
    /\ exists(1)
    /\ doesResample(mTracks[1])
    /\ mTracks[1].sampleRate = mSampleRate
    /\ mHook = ptr_process__validate

\* C12: setParameter(RESAMPLE, REMOVE) leaves the track without a resampler
\* and at the device rate, and changes nothing else of the track;
\* setParameter(RESAMPLE, RESET) leaves sampleRate and the resampler, and with
\* them the whole track, as they were.
C12_ResetAndRemove ==
    [][\A n \in DOMAIN mTracks :
          /\ SetParameter(n, "RESAMPLE", "REMOVE", 0)
                => /\ ~doesResample(mTracks'[n])
                   /\ mTracks'[n].sampleRate = mSampleRate
                   /\ mTracks'[n] = [mTracks[n] EXCEPT !.sampleRate = mSampleRate,
                                                       !.mResampler = {}]
          /\ SetParameter(n, "RESAMPLE", "RESET", 0)
                => /\ mTracks'[n].sampleRate = mTracks[n].sampleRate
                   /\ doesResample(mTracks'[n]) <=> doesResample(mTracks[n])
                   /\ mTracks'[n] = mTracks[n]]_vars

\* A track validated with a resampler (needs still says so) has lost it and is
\* back at the device rate, enabled and with its gain as before.
C12_Witness ==
    /\ exists(1)
    /\ mTracks[1].needs.resample
    /\ ~doesResample(mTracks[1])
    /\ mTracks[1].sampleRate = mSampleRate
    /\ mTracks[1].enabled
    /\ mTracks[1].mVolume[0] = FloatOne
    /\ mHook = ptr_process__validate

\* The CHANNEL_MASK and MIXER_CHANNEL_MASK calls of setParameter.
MaskParams == {p \in TrackParams : p[2] \in {"CHANNEL_MASK", "MIXER_CHANNEL_MASK"}}

MasksOf(t) == <<t.channelMask, t.mMixerChannelMask>>

\* C13: a track that has a resampler has one again after a CHANNEL_MASK or
\* MIXER_CHANNEL_MASK call that changes a mask, and its sampleRate is the one
\* it had before, whatever that sampleRate was.
C13_MaskChangeKeepsResampler ==
    [][\A n \in DOMAIN mTracks, p \in MaskParams :
          /\ doesResample(mTracks[n])
          /\ SetParameter(n, p[1], p[2], p[3])
          /\ MasksOf(mTracks'[n]) # MasksOf(mTracks[n])
          => /\ doesResample(mTracks'[n])
             /\ mTracks'[n].sampleRate = mTracks[n].sampleRate]_vars

\* The five PCM formats the mixer takes as track input.
SupportedFormats ==
    {"PCM_8_BIT", "PCM_16_BIT", "PCM_24_BIT_PACKED", "PCM_32_BIT", "PCM_FLOAT"}

\* The track as create() leaves it: disabled, every gain, prev value and
\* increment zero, no resampler, at the device rate, no buffers.
FreshTrack(t) ==
    /\ ~t.enabled
    /\ \A c \in Channels :
          /\ t.volume[c] = 0 /\ t.prevVolume[c] = 0 /\ t.volumeInc[c] = 0
          /\ t.mVolume[c] = 0 /\ t.mPrevVolume[c] = 0 /\ t.mVolumeInc[c] = 0
    /\ t.auxLevel = 0 /\ t.prevAuxLevel = 0 /\ t.auxInc = 0
    /\ t.mAuxLevel = 0 /\ t.mPrevAuxLevel = 0 /\ t.mAuxInc = 0
    /\ ~doesResample(t)
    /\ t.sampleRate = mSampleRate
    /\ t.mainBuffer = NULL
    /\ t.auxBuffer = NULL

\* C14: create() with a name that does not exist returns BAD_VALUE and leaves
\* the registry, mHook, mEnabled and mGroups alone when the format is not one
\* of the five supported ones or the mask has more than MAX_NUM_CHANNELS
\* channels; otherwise it returns OK and adds exactly one track, a fresh one,
\* and leaves the other tracks and mHook alone.
C14_CreateValidates ==
    [][\A n \in Names, a \in CreateArgs :
          ~exists(n) /\ Create(n, a[1], a[2])
              => IF a[2] \notin SupportedFormats
                    \/ audio_channel_count_from_out_mask(a[1]) > MAX_NUM_CHANNELS
                 THEN /\ CreateStatus(a[1], a[2]) = "BAD_VALUE"
                      /\ UNCHANGED <<mTracks, mHook, mEnabled, mGroups>>
                 ELSE /\ CreateStatus(a[1], a[2]) = "OK"
                      /\ DOMAIN mTracks' = DOMAIN mTracks \cup {n}
                      /\ \A x \in DOMAIN mTracks : mTracks'[x] = mTracks[x]
                      /\ FreshTrack(mTracks'[n])
                      /\ mTracks'[n].channelMask = a[1]
                      /\ mTracks'[n].mFormat = a[2]
                      /\ UNCHANGED <<mHook, mEnabled, mGroups>>]_vars

\* A second track has just been created next to an enabled one that process()
\* has validated: the hook process() selected is still in place.
C14_Witness ==
    /\ DOMAIN mTracks = {1, 2}
    /\ mTracks[1].enabled
    /\ FreshTrack(mTracks[2])
    /\ created = <<1, 2>>
    /\ mEnabled = <<1>>
    /\ mHook \notin {ptr_process__validate, ptr_process__nop}

\* C15: calls outside the protocol abort: create() of a name that exists;
\* destroy(), enable(), disable() and setParameter() of a name that does not;
\* setParameter() with a target or a param it does not handle, and that call
\* has not touched the track when it aborts.
C15_ProtocolViolationsAbort ==
    [][\A n \in Names :
          /\ \A a \in CreateArgs :
                exists(n) /\ Create(n, a[1], a[2]) => fatal' # NoFatal
          /\ ~exists(n) /\ (Destroy(n) \/ Enable(n) \/ Disable(n)) => fatal' # NoFatal
          /\ \A p \in CtlParams :
                ~exists(n) /\ SetParameter(n, p[1], p[2], p[3]) => fatal' # NoFatal
          /\ \A p \in BadParams :
                exists(n) /\ SetParameter(n, p[1], p[2], p[3])
                    => /\ fatal' # NoFatal
                       /\ SetParameterOutcome(mTracks[n], p[1], p[2], p[3]).t = mTracks[n]]_vars

\* setParameter(TRACK, TEE_BUFFER_FORMAT) has aborted the process.
C15_Witness == fatal = "setParameter track: bad param"

\* C16: enable() of a disabled track sets enabled and leaves mHook at
\* process__validate; disable() of an enabled track clears enabled and leaves
\* mHook at process__validate; enable() of an enabled track and disable() of a
\* disabled one change nothing of the tracks or the mixer.
C16_EnableDisable ==
    [][\A n \in DOMAIN mTracks :
          /\ Enable(n)
                => IF ~mTracks[n].enabled
                   THEN /\ mTracks' = [mTracks EXCEPT ![n].enabled = TRUE]
                        /\ mHook' = ptr_process__validate
                   ELSE UNCHANGED <<mTracks, MixerState>>
          /\ Disable(n)
                => IF mTracks[n].enabled
                   THEN /\ mTracks' = [mTracks EXCEPT ![n].enabled = FALSE]
                        /\ mHook' = ptr_process__validate
                   ELSE UNCHANGED <<mTracks, MixerState>>]_vars

\* Since the last process() track 1 has been enabled and track 2 disabled:
\* mEnabled still lists track 2 alone and the hook is invalidated.
C16_Witness ==
    /\ DOMAIN mTracks = {1, 2}
    /\ mTracks[1].enabled
    /\ ~mTracks[2].enabled
    /\ mEnabled = <<2>>
    /\ mHook = ptr_process__validate

\* C17: destroy() takes exactly the named track out of the registry and leaves
\* the other tracks as they were; mHook is process__validate afterwards if the
\* track was enabled and is unchanged if it was disabled.
C17_DestroyRemoves ==
    [][\A n \in DOMAIN mTracks :
          Destroy(n)
              => /\ DOMAIN mTracks' = DOMAIN mTracks \ {n}
                 /\ ~exists(n)'
                 /\ \A x \in DOMAIN mTracks' : mTracks'[x] = mTracks[x]
                 /\ mHook' = IF mTracks[n].enabled THEN ptr_process__validate ELSE mHook]_vars

\* Track 1, enabled and mixed in the last process(), has been destroyed: it is
\* gone from the registry, track 2 is still there, the hook is invalidated.
C17_Witness ==
    /\ DOMAIN mTracks = {2}
    /\ 1 \in Elements(mEnabled)
    /\ mHook = ptr_process__validate

\* The events of the last process(): the requests to the provider of track n,
\* those answered with a null buffer, the calls that mix track n, and the
\* stores to the main buffer key.
Pulls(n) ==
    {i \in DOMAIN events : events[i].ev = "getNextBuffer" /\ events[i].name = n}
NullPulls(n) == {i \in Pulls(n) : events[i].frames = 0}
Mixes(n) ==
    {i \in DOMAIN events : events[i].ev \in {"hook", "volumeMix"} /\ events[i].name = n}
Outputs(key) ==
    {i \in DOMAIN events :
        events[i].ev \in {"convertMixerFormat", "memset", "volumeMix"} /\ events[i].buf = key}

\* The frames of the events at the indices I, added up.
RECURSIVE FramesAt(_)
FramesAt(I) ==
    IF I = {} THEN 0
    ELSE LET i == CHOOSE x \in I : TRUE
         IN  events[i].frames + FramesAt(I \ {i})

\* The block a track hook mixed into is converted to the main buffer before
\* the accumulator is cleared again.
BlockReachesOutput(j, key) ==
    \E k \in DOMAIN events :
        /\ k > j
        /\ events[k].ev = "convertMixerFormat"
        /\ events[k].buf = key
        /\ \A c \in (j + 1)..(k - 1) : ~(events[c].ev = "clear" /\ events[c].buf = key)

\* A process hook that accumulates groups of tracks ran in the last process().
AccumulatedGroup(key) ==
    \E i \in DOMAIN events : events[i].ev = "clear" /\ events[i].buf = key

\* C18: when a provider returns a null buffer during a process() cycle, at the
\* first request or later, the cycle still writes frameCount frames to every
\* group's main buffer; what the track mixed before the null reaches the
\* output; the track is not mixed after the null; the other tracks of the
\* group are mixed for all frameCount frames; and every cycle asks each
\* provider for frameCount frames first.
C18_NullBufferIsSilence ==
    events # <<>> =>
        /\ \A key \in DOMAIN mGroups : FramesAt(Outputs(key)) = mFrameCount
        /\ \A key \in DOMAIN mGroups :
              \A x \in DOMAIN mGroups[key] :
                 LET n == mGroups[key][x]
                 IN  /\ \A i \in NullPulls(n), j \in Mixes(n) : j < i
                     /\ \A j \in Mixes(n) :
                           events[j].ev = "hook" => BlockReachesOutput(j, key)
                     /\ AccumulatedGroup(key) /\ Pulls(n) # {} /\ NullPulls(n) = {}
                           => FramesAt(Mixes(n)) = mFrameCount
                     /\ Pulls(n) # {} => events[MinOf(Pulls(n))].hook = <<mFrameCount>>

\* Two tracks mixed into the same main buffer: the provider of track 2
\* returned a null buffer after DryAfter frames, which were mixed, and track 1
\* was mixed for the whole cycle.
C18_Witness ==
    /\ DOMAIN mTracks = {1, 2}
    /\ DOMAIN mGroups = {"A"}
    /\ mGroups["A"] = <<1, 2>>
    /\ \A n \in {1, 2} : mTracks[n].hook[1] = "track__NoResample"
    /\ NullPulls(2) # {}
    /\ FramesAt(Mixes(2)) = DryAfter
    /\ FramesAt(Mixes(1)) = mFrameCount

\* The committed float gains of a track are zero.
ZeroGain(t) == \A c \in Channels : t.mVolume[c] = 0

\* No gain of the track is on its way to zero: a mixing call multiplies by 0.
NoGainRamp(t) == \A c \in Channels : t.mPrevVolume[c] = 0 /\ t.mVolumeInc[c] = 0

NoAuxSend(t) == t.auxLevel = 0 \/ t.auxBuffer = NULL

\* The calls of the last process() that add input scaled by a track's gains.
MixingEvents ==
    {i \in DOMAIN events :
        \/ events[i].ev = "volumeMix"
        \/ events[i].ev = "hook" /\ events[i].hook # ptr_track__nop}

\* A step of process() after which every group's main buffer holds frameCount
\* frames of zeros whatever the providers returned: it was written in full,
\* and every call that mixed a track did so with gains that were zero and at
\* rest when the cycle began.
OutputIsZero ==
    /\ events' # <<>>
    /\ \A key \in DOMAIN mGroups' : (FramesAt(Outputs(key)))' = mFrameCount
    /\ \A i \in MixingEvents' :
          ZeroGain(mTracks[events'[i].name]) /\ NoGainRamp(mTracks[events'[i].name])

\* C19 as the spec states it: a process() call in which every enabled track
\* has mVolume[0] == mVolume[1] == 0 and no aux send leaves zeros in every
\* group's main buffer.
C19_ZeroGainIsSilent ==
    [][/\ events' # <<>>
       /\ \A n \in EnabledNames : ZeroGain(mTracks[n]) /\ NoAuxSend(mTracks[n])
       => OutputIsZero]_vars

\* C19, corrected: a process() call in which every enabled track has
\* mVolume[0] == mVolume[1] == 0, no ramp of these gains in progress and no
\* aux send leaves zeros in every group's main buffer.
C19_ZeroGainAtRestIsSilent ==
    [][/\ events' # <<>>
       /\ \A n \in EnabledNames :
             ZeroGain(mTracks[n]) /\ NoGainRamp(mTracks[n]) /\ NoAuxSend(mTracks[n])
       => OutputIsZero]_vars

\* The first process() after a change has run with the track muted: validate
\* gave it track__nop, the generic kernel converted an accumulator nothing
\* was mixed into, and process__nop is installed for the next cycle.
C19_Witness ==
    /\ EnabledNames = {1}
    /\ ZeroGain(mTracks[1]) /\ NoGainRamp(mTracks[1]) /\ NoAuxSend(mTracks[1])
    /\ \E i \in DOMAIN events : events[i].ev = "hook" /\ events[i].hook = ptr_track__nop
    /\ MixingEvents = {}
    /\ FramesAt(Outputs(mTracks[1].mainBuffer)) = mFrameCount
    /\ mHook = ptr_process__nop

\* C20: in every process() cycle a track with an aux buffer and a non-zero
\* auxLevel has NEEDS_AUX and is mixed by a hook other than track__nop that is
\* handed the aux pointer, in the call that mixes its main output, whatever
\* its main gains are.
C20_AuxSendAlwaysMixed ==
    events # <<>> =>
        \A n \in EnabledNames :
            mTracks[n].auxBuffer # NULL /\ mTracks[n].auxLevel # 0
                => /\ mTracks[n].needs.aux
                   /\ \E i \in MixingEvents : events[i].name = n
                   /\ \A i \in MixingEvents :
                         events[i].name = n /\ events[i].ev = "hook"
                             => events[i].buf = mTracks[n].auxBuffer

\* The events of one kind in the log of the last process().
EventsOf(kind) == {i \in DOMAIN events : events[i].ev = kind}

\* C21: every process() call, the validating one included, calls preProcess
\* once, first, and postProcess once, last, and in between mixes once: no
\* provider hands over more than frameCount frames.
C21_PrePostOnce ==
    events # <<>> =>
        /\ EventsOf("preProcess") = {1}
        /\ EventsOf("postProcess") = {Len(events)}
        /\ \A n \in DOMAIN mTracks : FramesAt(Pulls(n)) <= mFrameCount

\* The process hooks other than process__validate.
ConcreteHooks ==
    {"process__nop", "process__genericNoResampling", "process__genericResampling",
     "process__noResampleOneTrack"}

HooksAndNeeds(tracks) == [n \in DOMAIN tracks |-> <<tracks[n].hook, tracks[n].needs>>]

\* C22: when process() has returned mHook is a concrete hook; a process() call
\* that starts from a concrete hook, as every call does that follows another
\* with no control operation in between, does not validate, allocates neither
\* mOutputTemp nor mResampleTemp and leaves mHook, mEnabled, mGroups and every
\* track's hook and needs alone; a scratch buffer once allocated stays.
C22_ValidateOnceThenSteady ==
    [][/\ events' # <<>>
          => /\ mHook'[1] \in ConcreteHooks
             /\ mHook # ptr_process__validate
                   => /\ UNCHANGED <<mHook, mEnabled, mGroups, mOutputTemp, mResampleTemp>>
                      /\ HooksAndNeeds(mTracks') = HooksAndNeeds(mTracks)
                      /\ (Cardinality(EventsOf("preProcess")) = 1)'
       /\ fatal' = NoFatal
          => /\ mOutputTemp => mOutputTemp'
             /\ mResampleTemp => mResampleTemp']_vars

\* A process() call that did not validate has run process__genericResampling
\* with the scratch buffers an earlier call allocated.
C22_Witness ==
    /\ Cardinality(EventsOf("preProcess")) = 1
    /\ mHook = ptr_process__genericResampling
    /\ mOutputTemp
    /\ mResampleTemp

\* The element types the mixer accumulates in and writes out.
MixerFormats == {"PCM_16_BIT", "PCM_FLOAT"}

\* C23: in every reachable state every track has one of the five supported
\* PCM formats as mFormat, and PCM_16_BIT or PCM_FLOAT as mMixerFormat and as
\* mMixerInFormat: setParameter stores no value outside these sets.
C23_FormatsValid ==
    \A n \in DOMAIN mTracks :
        /\ mTracks[n].mFormat \in SupportedFormats
        /\ mTracks[n].mMixerFormat \in MixerFormats
        /\ mTracks[n].mMixerInFormat \in MixerFormats

\* C24: in every reachable state every track has 1 <= channelCount <=
\* MAX_NUM_CHANNELS and 1 <= mMixerChannelCount <= MAX_NUM_CHANNELS, and once
\* validate has run the channel bits of an enabled track's needs are
\* channelCount - 1.
C24_ChannelCountsInRange ==
    \A n \in DOMAIN mTracks :
        /\ mTracks[n].channelCount \in 1..MAX_NUM_CHANNELS
        /\ mTracks[n].mMixerChannelCount \in 1..MAX_NUM_CHANNELS
        /\ mHook # ptr_process__validate /\ mTracks[n].enabled
              => mTracks[n].needs.chan + 1 = mTracks[n].channelCount

\* C25: once validate has run, an enabled track has NEEDS_MUTE and the hook
\* track__nop exactly when it has no resampler and both float gains are 0;
\* every other enabled track has a hook that mixes; and in a process() that
\* does not validate no call mixes a track that is muted in this sense.
C25_MutedIffZeroGain ==
    mHook # ptr_process__validate =>
        \A n \in DOMAIN mTracks :
            mTracks[n].enabled =>
                /\ (mTracks[n].needs.mute /\ mTracks[n].hook = ptr_track__nop)
                      <=> MutedNow(mTracks[n])
                /\ ~MutedNow(mTracks[n]) => mTracks[n].hook \notin {<<NULL>>, ptr_track__nop}
                /\ MutedNow(mTracks[n]) /\ Cardinality(EventsOf("preProcess")) = 1
                      => Mixes(n) \cap MixingEvents = {}

\* No main-gain ramp is pending on the track, in either representation.
NoRampPending(t) ==
    \A c \in Channels :
        /\ t.volumeInc[c] = 0
        /\ t.mVolumeInc[c] = 0
        /\ t.prevVolume[c] = t.volume[c] * 65536
        /\ t.mPrevVolume[c] = t.mVolume[c]

\* C26: once validate has run, an enabled track that it left with the hook
\* track__nop has no ramp pending, whatever the providers returned during
\* validate's process() pass.
C26_MutedAfterRamp ==
    mHook # ptr_process__validate =>
        \A n \in DOMAIN mTracks :
            mTracks[n].enabled /\ mTracks[n].hook = ptr_track__nop
                => NoRampPending(mTracks[n])

\* The last process() ran process__nop on the groups of mGroups: each group's
\* main buffer is zeroed by one memset of frameCount frames and written by
\* nothing else, no track is mixed, and every track is asked for frames until
\* it has handed over frameCount frames or a null buffer, each buffer that
\* is not null being released right after it was obtained.
NopCycle ==
    /\ MixingEvents = {}
    /\ \A key \in DOMAIN mGroups :
          /\ Cardinality(Outputs(key)) = 1
          /\ \A i \in Outputs(key) : events[i].ev = "memset" /\ events[i].frames = mFrameCount
          /\ \A g \in DOMAIN mGroups[key] :
                LET n == mGroups[key][g]
                IN  /\ FramesAt(Pulls(n)) <= mFrameCount
                    /\ FramesAt(Pulls(n)) = mFrameCount \/ NullPulls(n) # {}
                    /\ Cardinality(NullPulls(n)) <= 1
                    /\ \A i \in Pulls(n) \ NullPulls(n) :
                          /\ i < Len(events)
                          /\ events[i + 1].ev = "releaseBuffer"
                          /\ events[i + 1].name = n
                          /\ events[i + 1].frames = events[i].frames
                    /\ Cardinality({i \in DOMAIN events :
                                      events[i].ev = "releaseBuffer" /\ events[i].name = n})
                          = Cardinality(Pulls(n) \ NullPulls(n))

AllMuted == \A n \in EnabledNames : MutedNow(mTracks[n])

\* C27: once validate has run, mHook is process__nop exactly when every
\* enabled track (if there is one) has no resampler and float gains 0; and a
\* process() that runs process__nop zeroes each group's main buffer once for
\* frameCount frames and drains up to frameCount frames from every track.
C27_NopHook ==
    [][/\ mHook' # ptr_process__validate => (mHook' = ptr_process__nop <=> AllMuted')
       /\ mHook = ptr_process__nop /\ events' # <<>> => NopCycle']_vars

C27_Witness ==
    /\ mHook = ptr_process__nop
    /\ DOMAIN mGroups = {"A", "B"}
    /\ EventsOf("memset") # {}
    /\ Cardinality(EventsOf("preProcess")) = 1
    /\ NullPulls(2) # {}
    /\ FramesAt(Pulls(2)) = DryAfter
    /\ FramesAt(Pulls(1)) = mFrameCount

\* C28: whenever mHook is a concrete hook, it is process__genericResampling
\* exactly when some enabled track has a resampler, and every enabled track
\* has NEEDS_RESAMPLE exactly when it has a resampler.
C28_ResamplingHook ==
    mHook # ptr_process__validate =>
        /\ mHook = ptr_process__genericResampling
              <=> \E n \in EnabledNames : doesResample(mTracks[n])
        /\ \A n \in EnabledNames : mTracks[n].needs.resample <=> doesResample(mTracks[n])

\* The configuration the single-track hook is meant for: no resampler, at
\* least two input channels, no aux buffer, no volume or aux ramp pending.
OneTrackConfig(t) ==
    /\ ~doesResample(t)
    /\ t.channelCount >= 2
    /\ t.auxBuffer = NULL
    /\ ~needsRamp(t)

IsOneTrackHook(hook) == hook[1] = "process__noResampleOneTrack"

\* C29: whenever mHook is an instance of process__noResampleOneTrack, exactly
\* one track is enabled and it has no resampler, at least two channels, no
\* aux buffer and no ramp pending; in every other configuration without a
\* resampling track and with a track that is not muted, mHook is
\* process__genericNoResampling.
C29_OneTrackHook ==
    mHook # ptr_process__validate =>
        /\ IsOneTrackHook(mHook)
              => /\ Cardinality(EnabledNames) = 1
                 /\ \A n \in EnabledNames : OneTrackConfig(mTracks[n])
        /\ (/\ ~(Cardinality(EnabledNames) = 1
                 /\ \A n \in EnabledNames : OneTrackConfig(mTracks[n]))
            /\ \E n \in EnabledNames : ~MutedNow(mTracks[n])
            /\ \A n \in EnabledNames : ~doesResample(mTracks[n]))
              => mHook = ptr_process__genericNoResampling

\* The events of the generic hooks that touch the accumulator: its clearing,
\* the track hooks that add to it and its conversion to a main buffer.
AccumulatorEvents ==
    {i \in DOMAIN events : events[i].ev \in {"clear", "hook", "convertMixerFormat"}}

\* The accumulator event before event i (0: there is none), and the clearing
\* event i works from.
GreatestOf(S) == IF S = {} THEN 0 ELSE CHOOSE i \in S : \A j \in S : j <= i
PrevAccumulatorEvent(i) == GreatestOf({j \in AccumulatorEvents : j < i})
ClearBefore(i) == GreatestOf({j \in EventsOf("clear") : j < i})

\* Event i adds a track of the group the accumulator was cleared for, and no
\* conversion or further clearing came in between.
AddsToOpenBlock(i) ==
    /\ PrevAccumulatorEvent(i) # 0
    /\ events[PrevAccumulatorEvent(i)].ev \in {"clear", "hook"}
    /\ events[i].name \in DOMAIN mTracks
    /\ events[ClearBefore(i)].buf = mTracks[events[i].name].mainBuffer

\* Event i converts the block that was cleared last, in full, to the main
\* buffer of its group.
ConvertsOpenBlock(i) ==
    /\ PrevAccumulatorEvent(i) # 0
    /\ events[PrevAccumulatorEvent(i)].ev \in {"clear", "hook"}
    /\ events[ClearBefore(i)].buf = events[i].buf
    /\ events[ClearBefore(i)].frames = events[i].frames

\* C30: in a process() cycle of a generic hook the accumulator is cleared
\* only at the start of a block of a group, never between two tracks (every
\* clearing comes first or right after a conversion, and is followed by its
\* conversion), every track hook adds to the block cleared for its group, each
\* conversion writes the block cleared last, and for every group the blocks
\* cleared and the blocks written each add up to frameCount frames.
C30_ClearedOncePerBlock ==
    /\ \A i \in AccumulatorEvents :
          /\ events[i].ev = "clear"
                => /\ PrevAccumulatorEvent(i) # 0
                          => events[PrevAccumulatorEvent(i)].ev = "convertMixerFormat"
                   /\ BlockReachesOutput(i, events[i].buf)
          /\ events[i].ev = "hook" => AddsToOpenBlock(i)
          /\ events[i].ev = "convertMixerFormat" => ConvertsOpenBlock(i)
    /\ \A key \in DOMAIN mGroups :
          AccumulatedGroup(key)
              => /\ FramesAt({i \in EventsOf("clear") : events[i].buf = key}) = mFrameCount
                 /\ FramesAt(Outputs(key)) = mFrameCount
                 /\ \A g \in DOMAIN mGroups[key] :
                       FramesAt(Mixes(mGroups[key][g])) <= mFrameCount

\* Two tracks of one group are both mixed, by hooks that add their input, into
\* each of the two blocks of a cycle of process__genericNoResampling.
C30_Witness ==
    /\ DOMAIN mGroups = {"A"}
    /\ mGroups["A"] = <<1, 2>>
    /\ Cardinality(EventsOf("clear")) = 2
    /\ \A n \in {1, 2} : FramesAt(Mixes(n) \cap MixingEvents) = mFrameCount
    /\ \A c \in EventsOf("clear") :
          /\ events[c + 1].ev = "hook" /\ events[c + 1].name = 1
          /\ events[c + 2].ev = "hook" /\ events[c + 2].name = 2
          /\ events[c + 3].ev = "convertMixerFormat"

\* The gain prev, moving by inc, has not gone past target.
NotPastTarget(prev, inc, target) ==
    /\ inc > 0 => prev <= target
    /\ inc < 0 => prev >= target

\* C31: a ramp never overshoots: in every state the float gain of a ramping
\* channel, and the one the last mixed frame was scaled by, have not passed
\* the committed target in the direction of the increment, also when the
\* ramp straddles several process() cycles.
C31_RampNeverOvershoots ==
    \A n \in DOMAIN mTracks :
        \A c \in Channels :
            /\ NotPastTarget(mTracks[n].mPrevVolume[c], mTracks[n].mVolumeInc[c],
                             mTracks[n].mVolume[c])
            /\ events # <<>> /\ Mixes(n) # {}
                  => NotPastTarget(mTracks[n].mPrevVolume[c] - mTracks[n].mVolumeInc[c],
                                   mTracks[n].mVolumeInc[c], mTracks[n].mVolume[c])

\* The aux ramp of an enabled track with an aux buffer is not over.
AuxRampPending(n) ==
    /\ n \in DOMAIN mTracks
    /\ mTracks[n].enabled
    /\ mTracks[n].auxBuffer # NULL
    /\ \/ mTracks[n].auxInc # 0
       \/ mTracks[n].mAuxInc # 0
       \/ mTracks[n].prevAuxLevel # mTracks[n].auxLevel * 65536
       \/ mTracks[n].mPrevAuxLevel # mTracks[n].mAuxLevel

\* C32: an aux-level ramp on an enabled track with an aux buffer completes
\* after finitely many process() cycles whose providers supply every frame.
\* process() is a function of the mixer and of what the providers supply, so
\* a full cycle on a settled hook that leaves a pending aux ramp and the whole
\* mixer as they were is repeated forever: every such cycle has to move the
\* mixer or end the ramp.
C32_AuxRampCompletes ==
    [][(/\ AuxRampPending(1)
        /\ mHook # ptr_process__validate
        /\ FullySupplied(events'))
          => \/ ~AuxRampPending(1)'
             \/ <<mTracks, mHook, mEnabled, mGroups>>' # <<mTracks, mHook, mEnabled, mGroups>>]_vars

ProviderCalls(n) ==
    {i \in DOMAIN events :
        events[i].ev \in {"getNextBuffer", "releaseBuffer"} /\ events[i].name = n}

\* The call on the provider of track n that precedes call i, if any.
CallsBefore(n, i) == {j \in ProviderCalls(n) : j < i}

\* Call i on a provider handed the mixer a buffer that is still to be released.
HandsOver(i) == events[i].ev = "getNextBuffer" /\ events[i].frames > 0

\* C34: on every track's provider getNextBuffer and releaseBuffer alternate,
\* starting with getNextBuffer; releaseBuffer is called only for a buffer
\* that getNextBuffer returned non-null, once, and no non-null buffer is
\* left unreleased when process() returns.
C34_ProviderProtocol ==
    events # <<>> =>
        \A n \in DOMAIN mTracks :
            /\ \A i \in ProviderCalls(n) :
                  IF CallsBefore(n, i) = {}
                  THEN events[i].ev = "getNextBuffer"
                  ELSE HandsOver(GreatestOf(CallsBefore(n, i)))
                           <=> events[i].ev = "releaseBuffer"
            /\ ProviderCalls(n) # {} => ~HandsOver(GreatestOf(ProviderCalls(n)))

\* The names process() looks up in mTracks: those of mEnabled and of the
\* lists of mGroups.
NamesLookedUp ==
    Elements(mEnabled) \cup UNION {Elements(mGroups[b]) : b \in DOMAIN mGroups}

\* What stops a process hook that finds no track under a name.
NullTrackFatals ==
    {"process__nop: null track", "process__genericNoResampling: null track",
     "process__genericResampling: null track", "process__noResampleOneTrack: null track"}

\* C35: whenever a concrete process hook is installed, every name in mEnabled
\* and in the lists of mGroups is the name of an existing, enabled track, and
\* no process() call has come upon a name without a track.
C35_NamesExist ==
    /\ mHook # ptr_process__validate => NamesLookedUp \subseteq EnabledNames
    /\ fatal \notin NullTrackFatals

\* A concrete hook mixed the one remaining track after the other name was
\* given up or never taken.
C35_Witness ==
    /\ mHook[1] \in ConcreteHooks
    /\ events # <<>>
    /\ DOMAIN mTracks = {2}
    /\ NamesLookedUp = {2}
    /\ Mixes(2) # {}

\* The last process() ran process__genericResampling: it cleared the whole
\* of mOutputTemp, not a block of outTemp.
ResamplingPass ==
    \E j \in EventsOf("clear") : events[j].frames = mFrameCount /\ mFrameCount > BLOCKSIZE

\* What stops process() on a null resampler or a null temporary buffer.
ResampleFatals ==
    {"track__Resample: null mResampler", "track__Resample: null temp",
     "track__Resample: null out", "process__genericResampling: null outTemp"}

\* C36: whenever process() dispatches a resampling track hook, it does so
\* from process__genericResampling for a track with NEEDS_RESAMPLE whose
\* resampler is non-null, with mOutputTemp and mResampleTemp allocated; and
\* the hook process__genericResampling dispatches for a track with
\* NEEDS_RESAMPLE is a resampling hook.
C36_ResamplingDispatch ==
    /\ fatal \notin ResampleFatals
    /\ events # <<>> =>
          \A i \in EventsOf("hook") :
              /\ events[i].hook[1] = "track__Resample"
                    => /\ doesResample(mTracks[events[i].name])
                       /\ mTracks[events[i].name].needs.resample
                       /\ ResamplingPass
                       /\ mOutputTemp
                       /\ mResampleTemp
              /\ ResamplingPass /\ mTracks[events[i].name].needs.resample
                    => events[i].hook[1] = "track__Resample"

\* What stops the legacy single-track hook at its check of mEnabled.size().
LegacyFatal == "process__oneTrack16BitsStereoNoResampling: != 1 tracks enabled"

LegacyHooks ==
    {"process__oneTrack16BitsStereoNoResampling", "track__16BitsStereo",
     "track__16BitsMono", "track__genericResample"}

\* C37: process() through process__oneTrack16BitsStereoNoResampling returns
\* when exactly one track is enabled and stops at the hook's fatal check only
\* when the number of enabled tracks is not 1; and process__validate never
\* selects that hook nor a legacy track hook.
C37_LegacyHookGuard ==
    /\ [][\A pl \in PlansOver(CtlPlans), stale \in Names :
              LegacyProcess(pl, stale)
                  => /\ Len(mEnabled) = 1 => fatal' = NoFatal
                     /\ fatal' = LegacyFatal => Len(mEnabled) # 1]_vars
    /\ [](/\ mHook[1] \notin LegacyHooks
          /\ \A n \in DOMAIN mTracks : mTracks[n].hook[1] \notin LegacyHooks)

\* size_t getHandoutInputBufferCountLocked(): the difference, modulo 2^64.
getHandoutInputBufferCountLocked == mHandoutTotalBufferCount - mHandoutOutputBufferCount

\* A size_t that holds a count, not the wrapped result of 0 - 1.
NotWrapped(count) == count >= 0

\* C38: under any sequence of handoutBufferLocked and returnAnyBufferLocked
\* calls with any output flags, mHandoutOutputBufferCount <=
\* mHandoutTotalBufferCount, neither counter wraps below 0, and
\* getHandoutInputBufferCountLocked is not a wrapped value; and a
\* returnAnyBufferLocked call with no buffer outstanding or in
\* STATE_CONSTRUCTED returns INVALID_OPERATION and changes neither counter.
C38_HandoutCounts ==
    /\ [](/\ SizeLE(mHandoutOutputBufferCount, mHandoutTotalBufferCount)
          /\ NotWrapped(mHandoutTotalBufferCount)
          /\ NotWrapped(mHandoutOutputBufferCount)
          /\ NotWrapped(getHandoutInputBufferCountLocked))
    /\ [][res'[1] = "returnAnyBufferLocked"
            /\ (mHandoutTotalBufferCount = 0 \/ mState = "STATE_CONSTRUCTED")
              => /\ res'[2] = "INVALID_OPERATION"
                 /\ UNCHANGED <<mHandoutTotalBufferCount, mHandoutOutputBufferCount>>]_vars

\* The calls on the StatusTracker alternate, markComponentActive first.
MarksAlternate ==
    \A i \in DOMAIN marks :
        marks[i] = IF i % 2 = 1 THEN "markComponentActive" ELSE "markComponentIdle"

\* C39: over any sequence of handoutBufferLocked and returnAnyBufferLocked
\* calls interleaved with changes of the stream state, markComponentActive
\* and markComponentIdle alternate, markComponentActive first; and
\* markComponentActive is called only when mHandoutTotalBufferCount goes from
\* 0 to 1, markComponentIdle only when it goes to 0, both only outside
\* STATE_IN_CONFIG, STATE_IN_RECONFIG and STATE_PREPARING.
C39_BusyIdleAlternate ==
    /\ []MarksAlternate
    /\ [][marks' # marks
            => /\ ReportsBusy(mState)
               /\ marks'[Len(marks')] = "markComponentActive"
                     => mHandoutTotalBufferCount = 0 /\ mHandoutTotalBufferCount' = 1
               /\ marks'[Len(marks')] = "markComponentIdle"
                     => mHandoutTotalBufferCount # 0 /\ mHandoutTotalBufferCount' = 0]_vars

\* C40: disconnectLocked returns -ENOTCONN in every state other than
\* STATE_IN_RECONFIG, STATE_CONFIGURED and STATE_ABANDONED, INVALID_OPERATION
\* in those three while a buffer is handed out, and OK only when none is;
\* configureQueueLocked returns INVALID_OPERATION in every state other than
\* STATE_IN_CONFIG and STATE_IN_RECONFIG and, in STATE_IN_RECONFIG, the error
\* of disconnectLocked; neither call changes mState or a buffer counter.
C40_DisconnectAndConfigure ==
    [][/\ res'[1] \in {"disconnectLocked", "configureQueueLocked"}
             => UNCHANGED <<mState, mHandoutTotalBufferCount, mHandoutOutputBufferCount>>
       /\ res'[1] = "disconnectLocked"
             => /\ mState \notin {"STATE_IN_RECONFIG", "STATE_CONFIGURED", "STATE_ABANDONED"}
                      => res'[2] = "-ENOTCONN"
                /\ mState \in {"STATE_IN_RECONFIG", "STATE_CONFIGURED", "STATE_ABANDONED"}
                      /\ mHandoutTotalBufferCount # 0
                      => res'[2] = "INVALID_OPERATION"
                /\ res'[2] = "OK" => mHandoutTotalBufferCount = 0
       /\ res'[1] = "configureQueueLocked"
             => /\ mState \notin {"STATE_IN_CONFIG", "STATE_IN_RECONFIG"}
                      => res'[2] = "INVALID_OPERATION"
                /\ mState = "STATE_IN_RECONFIG" /\ mHandoutTotalBufferCount # 0
                      => res'[2] = "INVALID_OPERATION"
                /\ res'[2] = "OK"
                      => \/ mState = "STATE_IN_CONFIG"
                         \/ mState = "STATE_IN_RECONFIG" /\ mHandoutTotalBufferCount = 0]_vars

\* configureQueueLocked passed on the error of disconnectLocked: the stream is
\* being reconfigured while a buffer is handed out.
C40_Witness ==
    /\ res = <<"configureQueueLocked", "INVALID_OPERATION">>
    /\ mState = "STATE_IN_RECONFIG"
    /\ mHandoutTotalBufferCount > 0

====
